---- MODULE Spec2Model ----
(***************************************************************************)
(* The request handler of the MindMoney backend (src/unnamed/part_000):    *)
(* the router exports.handler, the token verifier, the query executor, the *)
(* text-generation client and the domain handlers, over the relational     *)
(* store of src/database/schema.sql.                                       *)
(*                                                                         *)
(* A request is handled in steps.  One step is everything the handler does *)
(* up to and including its next store statement (a single SQL statement is *)
(* atomic in the store); the text-generation call, which touches no shared *)
(* state, is part of the step of the statement that follows it.            *)
(***************************************************************************)
EXTENDS Integers, Sequences, FiniteSets, TLC

VARIABLES users, quiz_responses, spending_entries, nextEntryId,
          savings_goals, chat_messages, now, connections, slot, before,
          mockSpendingEntries, call

\* The store: its tables, the next AUTO_INCREMENT id of spending_entries, its
\* clock NOW() in seconds, and the number of connections open to it.
store == <<users, quiz_responses, spending_entries, nextEntryId, savings_goals,
           chat_messages, now, connections>>
\* The browser's side (src/lib/api.ts): the entries of the mock client and
\* the apiClient call in progress.
client == <<mockSpendingEntries, call>>
vars == <<users, quiz_responses, spending_entries, nextEntryId, savings_goals,
          chat_messages, now, connections, slot, before, mockSpendingEntries, call>>

(***************************************************************************)
(* Bounds of the model.                                                    *)
(***************************************************************************)
MaxEntries == 2
MaxQuiz == 3
MaxInFlight == 2
MaxChat == 4
MaxClock == 2
MaxMock == 4

Subjects == {"abc", "xyz"}

(***************************************************************************)
(* JavaScript values.  A string is a sequence of pieces: a literal text,   *)
(* the decimal rendering "n.00" of a DECIMAL(10,2) column, or the digits   *)
(* of an integer.  n holds the value of a number or of a boolean (1, 0).   *)
(***************************************************************************)
Lit(s) == [k |-> "lit", n |-> 0, s |-> s]
Dec(n) == [k |-> "dec", n |-> n, s |-> ""]
Digits(n) == [k |-> "int", n |-> n, s |-> ""]

Num(n) == [t |-> "num", n |-> n, p |-> <<>>]
Str(s) == [t |-> "str", n |-> 0, p |-> <<Lit(s)>>]
DecStr(n) == [t |-> "str", n |-> 0, p |-> <<Dec(n)>>]
Bool(b) == [t |-> "bool", n |-> IF b THEN 1 ELSE 0, p |-> <<>>]
Undefined == [t |-> "undef", n |-> 0, p |-> <<>>]
NaN == [t |-> "nan", n |-> 0, p |-> <<>>]

\* String(v) as the + operator applies it to a primitive operand.
ToStringPieces(v) ==
  CASE v.t = "str" -> v.p
    [] v.t = "num" -> <<Digits(v.n)>>
    [] v.t = "bool" -> <<Lit(IF v.n = 1 THEN "true" ELSE "false")>>
    [] v.t = "nan" -> <<Lit("NaN")>>
    [] OTHER -> <<Lit("undefined")>>

\* Number(v): a string is a number only if it reads as one numeral.  Digits
\* followed by one "n.00" read as one numeral ("0" + "55.00" is "055.00", 55);
\* two decimal points, or any other text, do not.
ToNumber(v) ==
  CASE v.t = "num" -> v
    [] v.t = "bool" -> Num(v.n)
    [] v.t = "str" ->
         IF Len(v.p) = 1 /\ v.p[1].k \in {"dec", "int"} THEN Num(v.p[1].n)
         ELSE IF Len(v.p) = 2 /\ v.p[1].k = "int" /\ v.p[1].n = 0 /\ v.p[2].k = "dec"
              THEN Num(v.p[2].n)
         ELSE NaN
    [] OTHER -> NaN

\* a + b: concatenation as soon as one operand is a string.
JsAdd(a, b) ==
  IF a.t = "str" \/ b.t = "str"
  THEN [t |-> "str", n |-> 0, p |-> ToStringPieces(a) \o ToStringPieces(b)]
  ELSE IF ToNumber(a).t = "nan" \/ ToNumber(b).t = "nan" THEN NaN
  ELSE Num(ToNumber(a).n + ToNumber(b).n)

\* a - b: always numeric.
JsSub(a, b) ==
  IF ToNumber(a).t = "nan" \/ ToNumber(b).t = "nan" THEN NaN
  ELSE Num(ToNumber(a).n - ToNumber(b).n)

Truthy(v) ==
  CASE v.t = "num" -> v.n # 0
    [] v.t = "bool" -> v.n = 1
    [] v.t = "str" -> v.p # <<>> /\ v.p # <<Lit("")>>
    [] OTHER -> FALSE

(***************************************************************************)
(* Requests.  A request is the inbound HTTP request (method, path, the way *)
(* the gateway hands over the path, Authorization header, body, ?date=)    *)
(* together with what its environment will do: whether the text-generation *)
(* provider answers, and which of its store statements, if any, fails.     *)
(***************************************************************************)
NoToken == [kind |-> "none", sub |-> "", email |-> ""]
ValidToken(sub, email) == [kind |-> "valid", sub |-> sub, email |-> email]
BadToken(kind) == [kind |-> kind, sub |-> "", email |-> ""]
EmailOf(sub) == IF sub = "abc" THEN "abc@mail" ELSE "xyz@mail"

NoBody ==
  [present |-> FALSE, date |-> Undefined, amount |-> Undefined,
   description |-> Undefined, category |-> Undefined, isNecessary |-> Undefined,
   monthlyIncome |-> Undefined, monthlySavingsGoal |-> Undefined,
   answers |-> Undefined, message |-> Undefined]
EntryBody(date, amount, description, category, isNecessary) ==
  [NoBody EXCEPT !.present = TRUE, !.date = Str(date), !.amount = Num(amount),
                 !.description = Str(description), !.category = Str(category),
                 !.isNecessary = Bool(isNecessary)]
GoalBody(income, goal) ==
  [NoBody EXCEPT !.present = TRUE, !.monthlyIncome = Num(income),
                 !.monthlySavingsGoal = Num(goal)]
QuizBody(answers) == [NoBody EXCEPT !.present = TRUE, !.answers = Str(answers)]
ChatBody(message) == [NoBody EXCEPT !.present = TRUE, !.message = Str(message)]

EnvOk == [gen |-> TRUE, failAt |-> 0]

Request(method, path, shape, hname, token, body, qdate, env) ==
  [httpMethod |-> method, path |-> path, shape |-> shape, hname |-> hname,
   token |-> token, body |-> body, qdate |-> qdate, env |-> env]

\* The path without the deployment stage, as the gateway matches it against
\* its resource templates.
Unstaged(path) == IF Len(path) >= 2 /\ path[1] = "dev" THEN Tail(path) ELSE path

\* event.pathParameters as the gateway fills it in: the wildcard "proxy" of a
\* greedy resource, or the named segment of a templated resource
\* (/spending/entry/{id}, /x/y/{userId}), or null.
PathParameters(req) ==
  LET up == Unstaged(req.path) IN
  IF req.shape = "proxy" THEN [k |-> "proxy", v |-> up]
  ELSE IF Len(up) = 3 /\ up[1] = "spending" /\ up[2] = "entry"
       THEN [k |-> "id", v |-> <<up[3]>>]
  ELSE IF Len(up) = 3 /\ <<up[1], up[2]>> \in
            {<<"spending", "entries">>, <<"savings", "goal">>, <<"analysis", "daily">>,
             <<"chat", "history">>, <<"quiz", "analysis">>}
       THEN [k |-> "userId", v |-> <<up[3]>>]
  ELSE [k |-> "none", v |-> <<>>]

\* event.pathParameters?.<name>
PathParam(req, name) ==
  LET pp == PathParameters(req) IN
  IF pp.k = name THEN Str(pp.v[1]) ELSE Undefined

(***************************************************************************)
(* Responses: createResponse(statusCode, body).  success is "true",        *)
(* "false" or "absent"; data is a list of objects, and kind tells a list   *)
(* from a single object, null and an absent data field.                    *)
(***************************************************************************)
createResponse(statusCode, success, error, kind, data) ==
  [statusCode |-> statusCode, success |-> success, error |-> error,
   kind |-> kind, data |-> data]
NoResponse == createResponse(0, "absent", "", "absent", <<>>)
Success(kind, data) == createResponse(200, "true", "", kind, data)
Failure(statusCode, error) == createResponse(statusCode, "false", error, "absent", <<>>)
Plain(statusCode, error) == createResponse(statusCode, "absent", error, "absent", <<>>)

\* obj.<field> of a response object (undefined when the object has no such field).
Field(obj, name) == IF name \in DOMAIN obj THEN obj[name] ELSE Undefined

(***************************************************************************)
(* The router's path handling.  A path is the sequence of its segments:    *)
(* "/spending/entry/5" is <<"spending", "entry", "5">>, and a trailing     *)
(* slash is a last segment "".                                             *)
(***************************************************************************)
CleanPath(req) ==
  LET pp == PathParameters(req) IN
  IF pp.k = "proxy" /\ pp.v # <<>> THEN pp.v
  ELSE IF Len(req.path) >= 2 /\ req.path[1] = "dev" THEN Tail(req.path)
  ELSE req.path

AllowList ==
  {<<"health">>, <<"test-db">>, <<"test-gemini">>, <<"test-schema">>, <<"debug">>}

\* cleanPath.startsWith('/a/b/')
StartsWith(cp, a, b) == Len(cp) >= 3 /\ cp[1] = a /\ cp[2] = b

Route(method, cp) ==
  CASE cp = <<"health">> -> "health"
    [] cp = <<"test-db">> -> "testDb"
    [] cp = <<"test-gemini">> -> "testGemini"
    [] cp = <<"debug">> -> "debug"
    [] cp = <<"test-schema">> -> "testSchema"
    [] method = "POST" /\ cp = <<"quiz", "submit">> -> "quizSubmit"
    [] method = "POST" /\ cp = <<"spending", "entry">> -> "addSpendingEntry"
    [] method = "GET" /\ StartsWith(cp, "spending", "entries") -> "getSpendingEntries"
    [] method = "POST" /\ cp = <<"savings", "goal">> -> "setSavingsGoal"
    [] method = "GET" /\ StartsWith(cp, "analysis", "daily") -> "getDailyAnalysis"
    [] method = "POST" /\ cp = <<"chat", "message">> -> "chatMessage"
    [] method = "GET" /\ StartsWith(cp, "quiz", "analysis") -> "getQuizAnalysis"
    [] method = "GET" /\ StartsWith(cp, "savings", "goal") -> "getSavingsGoal"
    [] method = "PUT" /\ StartsWith(cp, "spending", "entry") -> "updateSpendingEntry"
    [] method = "DELETE" /\ StartsWith(cp, "spending", "entry") -> "deleteSpendingEntry"
    [] method = "GET" /\ StartsWith(cp, "chat", "history") -> "getChatHistory"
    [] OTHER -> "notFound"

\* The segment after the first occurrence of '/a/b/' in the path, or null
\* (rendered as undefined: only its falsiness and its inequality to a subject
\* are ever used).
extractUserIdFromPath(path, a, b) ==
  LET at == {i \in 1..(Len(path) - 2) : path[i] = a /\ path[i + 1] = b} IN
  IF at = {} THEN Undefined
  ELSE Str(path[(CHOOSE i \in at : \A j \in at : i <= j) + 2])

\* verifyToken: the header under one of three casings, the token after
\* "Bearer ", the verifier's verdict.  Every failure is rethrown as
\* 'Invalid token'.
AuthHeaderNames == {"Authorization", "authorization", "AUTHORIZATION"}
verifyToken(req) ==
  IF req.hname \in AuthHeaderNames /\ req.token.kind = "valid"
  THEN [ok |-> TRUE, sub |-> req.token.sub, email |-> req.token.email, error |-> ""]
  ELSE [ok |-> FALSE, sub |-> "", email |-> "", error |-> "Invalid token"]

(***************************************************************************)
(* The store, column by column as src/database/schema.sql declares it, and *)
(* the conversions of the driver: a bound undefined is refused, a boolean  *)
(* is bound as 1 or 0, a DECIMAL column comes back as a string (that is    *)
(* why handleGetSavingsGoal applies parseFloat) and a BOOLEAN as 1 or 0    *)
(* (that is why handleGetChatHistory tests is_user === 1).                 *)
(***************************************************************************)
IdSegs == <<"1", "2", "3", "4", "5", "6">>
\* WHERE id = ? with a string bound: the number the string reads as, else 0.
ToId(v) ==
  IF v.t = "num" THEN v.n
  ELSE IF v.t = "str" /\ Len(v.p) = 1 /\ \E n \in 1..Len(IdSegs) : IdSegs[n] = v.p[1].s
       THEN CHOOSE n \in 1..Len(IdSegs) : IdSegs[n] = v.p[1].s
  ELSE 0

Bindable(params) == \A i \in 1..Len(params) : params[i].t # "undef"
ToColumn(v) == IF v.t \in {"num", "bool"} THEN v.n ELSE 0
ToText(v) == IF v.t = "str" /\ Len(v.p) = 1 THEN v.p[1].s ELSE ""

\* Rows of a table in the order of their ids (created_at does not decrease
\* with the id), ascending.
RowsAsc(S) ==
  [i \in 1..Cardinality(S) |->
      CHOOSE r \in S : Cardinality({q \in S : q.id < r.id}) = i - 1]
RowsDesc(S) ==
  [i \in 1..Cardinality(S) |->
      CHOOSE r \in S : Cardinality({q \in S : q.id > r.id}) = i - 1]

\* A spending_entries row as the driver returns it.
EntryRow(r) ==
  [id |-> Num(r.id), user_id |-> Str(r.user_id),
   date |-> [t |-> "str", n |-> 0, p |-> <<Lit(r.date), Lit("T00:00:00.000Z")>>],
   amount |-> DecStr(r.amount), description |-> Str(r.description),
   category |-> Str(r.category), is_necessary |-> Num(r.is_necessary),
   created_at |-> Num(r.created_at)]
\* A savings_goals row as the driver returns it.
GoalRow(g) ==
  [id |-> Num(g.id), user_id |-> Str(g.user_id),
   monthly_income |-> DecStr(g.monthly_income),
   monthly_savings_goal |-> DecStr(g.monthly_savings_goal),
   savings_plan |-> g.savings_plan]

parseFloat(v) ==
  IF v.t = "num" THEN v
  ELSE IF v.t = "str" /\ Len(v.p) >= 1 /\ v.p[1].k \in {"dec", "int"} THEN Num(v.p[1].n)
  ELSE NaN
\* n.toString()
NumToString(v) == [t |-> "str", n |-> 0, p |-> <<Digits(v.n)>>]
\* Date.now().toString(): the time of the call, never the id of a row.
DateNowString == Str("Date.now()")

\* INSERT INTO users: the primary key and UNIQUE(email) (schema.sql 9-10).
UserInsertable(id, email) ==
  /\ \A u \in users : u.id # id
  /\ \A u \in users : u.email # email
\* FOREIGN KEY (user_id) REFERENCES users(id)
UserExists(id) == \E u \in users : u.id = id

\* A plain INSERT INTO savings_goals on a table without UNIQUE(user_id).
InsertGoal(goals, user_id, income, goal, plan) ==
  goals \cup {[id |-> Cardinality(goals) + 1, user_id |-> user_id,
               monthly_income |-> income, monthly_savings_goal |-> goal,
               savings_plan |-> plan]}

\* INSERT INTO savings_goals ... ON DUPLICATE KEY UPDATE, on UNIQUE(user_id).
UpsertGoal(goals, user_id, income, goal, plan) ==
  IF \E g \in goals : g.user_id = user_id
  THEN {IF g.user_id = user_id
        THEN [g EXCEPT !.monthly_income = income, !.monthly_savings_goal = goal,
                       !.savings_plan = plan]
        ELSE g : g \in goals}
  ELSE goals \cup {[id |-> Cardinality(goals) + 1, user_id |-> user_id,
                    monthly_income |-> income, monthly_savings_goal |-> goal,
                    savings_plan |-> plan]}

\* callGemini on the savings-plan prompt: a text about the two figures.
GenPlan(income, goal) == [t |-> "str", n |-> 0, p |-> <<Lit("plan for "), Digits(income.n), Digits(goal.n)>>]
GenText(what) == Str(what)

(***************************************************************************)
(* Requests in progress.  slot[s] is one invocation of exports.handler:    *)
(* its position pc, the request, the verified token's claims, the rows a   *)
(* handler keeps between two statements, the calls made so far, and the    *)
(* response once pc is "done".                                             *)
(***************************************************************************)
NoUser == [sub |-> "", email |-> ""]
NoRequest == Request("", <<>>, "param", "none", NoToken, NoBody, "", EnvOk)
IdleSlot ==
  [pc |-> "idle", req |-> NoRequest, user |-> NoUser, rows |-> <<>>,
   log |-> <<>>, resp |-> NoResponse]

\* executeQuery: a connection is opened, the statement executed, the
\* connection ended; a bound undefined is refused before the statement is sent.
Stmt == <<"connect", "execute", "end">>
Refused == <<"connect", "end">>
Count(log, e) == Cardinality({i \in 1..Len(log) : log[i] = e})
\* The environment fails the statement that is this request's failAt-th.
StmtFails(sl) == sl.req.env.failAt = Count(sl.log, "connect") + 1

StoreError == "store statement failed"
BindError == "Bind parameters must not contain undefined"
ForeignKeyError == "a foreign key constraint fails"
DuplicateError == "Duplicate entry"
GenError == "Failed to get AI response"
ParseError == "Cannot destructure the body"

\* A catch that answers like the diagnostic probes: the message alone.
ThrownBare(message) == Plain(500, message)

\* The catch of exports.handler: status 500 and the error's message.
Thrown(message) == Failure(500, message)

Upd(s, pc, resp, events, rows) ==
  slot' = [slot EXCEPT ![s] = [@ EXCEPT !.pc = pc, !.resp = resp,
                                        !.log = @ \o events, !.rows = rows]]

(***************************************************************************)
(* The handlers up to their first store statement: what each does when the *)
(* router calls it.  Each yields the next position and, when the handler   *)
(* returns at once, the response.                                          *)
(***************************************************************************)
Go(pc) == [pc |-> pc, resp |-> NoResponse]
Return(resp) == [pc |-> "done", resp |-> resp]

\* JSON.parse(event.body) and the destructuring of its result.
NeedsBody(req, pc) == IF req.body.present THEN Go(pc) ELSE Return(Thrown(ParseError))

\* handleQuizSubmit catches what it throws itself.
BeginQuizSubmit(req, user) ==
  IF req.body.present THEN Go("quiz_check") ELSE Return(Failure(500, ParseError))

BeginAddSpendingEntry(req, user) == NeedsBody(req, "add_insert")

EntriesUserId(req) ==
  LET userId == PathParam(req, "userId") IN
  IF Truthy(userId) THEN userId ELSE extractUserIdFromPath(req.path, "spending", "entries")
EffectiveUserId(req, user) ==
  IF Truthy(EntriesUserId(req)) THEN EntriesUserId(req) ELSE Str(user.sub)
\* handleGetSpendingEntries without its comparison of userId and subject.
EntriesUnchecked(req, user) == Go("entries_select")
BeginGetSpendingEntries(req, user) ==
  IF Truthy(EntriesUserId(req)) /\ EntriesUserId(req) # Str(user.sub)
  THEN Return(Failure(403, "Unauthorized"))
  ELSE Go("entries_select")

BeginSetSavingsGoal(req, user) == NeedsBody(req, "goal_upsert")

DailyUserId(req) ==
  LET userId == PathParam(req, "userId") IN
  IF Truthy(userId) THEN userId ELSE extractUserIdFromPath(req.path, "analysis", "daily")
BeginGetDailyAnalysis(req, user) ==
  IF DailyUserId(req) # Str(user.sub) THEN Return(Failure(403, "Unauthorized"))
  ELSE Go("daily_entries")

QuizAnalysisUserId(req) == PathParam(req, "userId")
BeginGetQuizAnalysis(req, user) ==
  IF QuizAnalysisUserId(req) # Str(user.sub) THEN Return(Failure(403, "Unauthorized"))
  ELSE Go("quiz_latest")

GoalUserId(req) == PathParam(req, "userId")
\* handleGetSavingsGoal without its comparison of userId and subject.
GoalUnchecked(req, user) == Go("goal_select")
BeginGetSavingsGoal(req, user) ==
  IF GoalUserId(req) # Str(user.sub) THEN Return(Failure(403, "Unauthorized"))
  ELSE Go("goal_select")

EntryId(req) == PathParam(req, "id")
BeginUpdateSpendingEntry(req, user) == NeedsBody(req, "update_select")
BeginDeleteSpendingEntry(req, user) == Go("delete_select")

ChatUserId(req) ==
  LET userId == PathParam(req, "userId") IN
  IF Truthy(userId) THEN userId ELSE extractUserIdFromPath(req.path, "chat", "history")
BeginGetChatHistory(req, user) ==
  IF ChatUserId(req) # Str(user.sub) THEN Return(Failure(403, "Unauthorized"))
  ELSE Go("chat_history")

\* A router whose last line answers like /health.
NotFoundAsHealthy == Plain(200, "")

\* The router's last line: no route matched.
NotFound == Failure(404, "Not found")

Dispatch(req, user) ==
  LET op == Route(req.httpMethod, CleanPath(req)) IN
  CASE op = "health" -> Return(Plain(200, ""))
    [] op = "testDb" -> Go("test_db")
    [] op = "testGemini" -> Go("test_gemini")
    [] op = "debug" -> Return(Plain(200, ""))
    [] op = "testSchema" -> Go("test_schema")
    [] op = "quizSubmit" -> BeginQuizSubmit(req, user)
    [] op = "addSpendingEntry" -> BeginAddSpendingEntry(req, user)
    [] op = "getSpendingEntries" -> BeginGetSpendingEntries(req, user)
    [] op = "setSavingsGoal" -> BeginSetSavingsGoal(req, user)
    [] op = "getDailyAnalysis" -> BeginGetDailyAnalysis(req, user)
    [] op = "chatMessage" -> NeedsBody(req, "chat_goal")
    [] op = "getQuizAnalysis" -> BeginGetQuizAnalysis(req, user)
    [] op = "getSavingsGoal" -> BeginGetSavingsGoal(req, user)
    [] op = "updateSpendingEntry" -> BeginUpdateSpendingEntry(req, user)
    [] op = "deleteSpendingEntry" -> BeginDeleteSpendingEntry(req, user)
    [] op = "getChatHistory" -> BeginGetChatHistory(req, user)
    [] OTHER -> Return(NotFound)

\* A router without the allow-list: it verifies every request.
VerifyAlways(req) == TRUE

\* A router that verifies no request.
VerifyNever(req) == FALSE

\* Which requests the router verifies (lines 575-579).
NeedsToken(req) == CleanPath(req) \notin AllowList

\* exports.handler from its entry to the first store statement of the handler.
handler(req) ==
  IF req.httpMethod = "OPTIONS"
  THEN [IdleSlot EXCEPT !.pc = "done", !.req = req, !.resp = Plain(200, "")]
  ELSE IF NeedsToken(req)
  THEN LET v == verifyToken(req) IN
       IF ~v.ok
       THEN [IdleSlot EXCEPT !.pc = "done", !.req = req, !.log = <<"verify">>,
                             !.resp = Thrown(v.error)]
       ELSE LET user == [sub |-> v.sub, email |-> v.email]
                d == Dispatch(req, user) IN
            [IdleSlot EXCEPT !.pc = d.pc, !.req = req, !.user = user,
                             !.log = <<"verify">>, !.resp = d.resp]
  ELSE LET d == Dispatch(req, NoUser) IN
       [IdleSlot EXCEPT !.pc = d.pc, !.req = req, !.resp = d.resp]

\* The tables as one record.
Tables ==
  [users |-> users, quiz_responses |-> quiz_responses,
   spending_entries |-> spending_entries, savings_goals |-> savings_goals,
   chat_messages |-> chat_messages]

\* A request arrives at a free invocation slot.  before is a history variable:
\* the tables as the latest request found them.
Arrive(s, requests) ==
  /\ slot[s].pc = "idle"
  /\ \E req \in requests : slot' = [slot EXCEPT ![s] = handler(req)]
  /\ before' = Tables
  /\ UNCHANGED <<store, client>>

\* The same with other requests in progress (no snapshot is taken).
ArriveConcurrent(s, requests) ==
  /\ slot[s].pc = "idle"
  /\ \E req \in requests : slot' = [slot EXCEPT ![s] = handler(req)]
  /\ UNCHANGED <<store, before, client>>

\* The response is handed to the gateway and the invocation ends.
Respond(s) ==
  /\ slot[s].pc = "done"
  /\ slot' = [slot EXCEPT ![s] = IdleSlot]
  /\ UNCHANGED <<store, before, client>>

(***************************************************************************)
(* handleQuizSubmit: SELECT the user, INSERT it when absent, generate the  *)
(* analysis, INSERT the quiz response.  Every error is caught by the       *)
(* handler itself and answered with status 500.                            *)
(***************************************************************************)
\* An existence check that always finds the user.
UserNeverMissing(sub) == FALSE

\* existingUser.length === 0
UserMissing(sub) == {u \in users : u.id = sub} = {}

QuizCheck(s) ==
  /\ slot[s].pc = "quiz_check"
  /\ LET sl == slot[s] IN
     IF StmtFails(sl) THEN Upd(s, "done", Failure(500, StoreError), Stmt, <<>>)
     ELSE IF UserMissing(sl.user.sub) THEN Upd(s, "quiz_user", NoResponse, Stmt, <<>>)
     ELSE Upd(s, "quiz_save", NoResponse, Stmt, <<>>)
  /\ UNCHANGED <<store, before, client>>

\* userPayload.email || 'user@example.com'
EmailOrDefault(email) == IF email = "" THEN "user@example.com" ELSE email

QuizCreateUser(s) ==
  /\ slot[s].pc = "quiz_user"
  /\ LET sl == slot[s]
         email == EmailOrDefault(sl.user.email) IN
     IF StmtFails(sl)
     THEN Upd(s, "done", Failure(500, StoreError), Stmt, <<>>) /\ UNCHANGED users
     ELSE IF ~UserInsertable(sl.user.sub, email)
     THEN Upd(s, "done", Failure(500, DuplicateError), Stmt, <<>>) /\ UNCHANGED users
     ELSE /\ users' = users \cup {[id |-> sl.user.sub, email |-> email]}
          /\ Upd(s, "quiz_save", NoResponse, Stmt, <<>>)
  /\ UNCHANGED <<quiz_responses, spending_entries, nextEntryId, savings_goals, chat_messages, now,
               connections, before, client>>

QuizSave(s) ==
  /\ slot[s].pc = "quiz_save"
  /\ LET sl == slot[s]
         answers == sl.req.body.answers IN
     IF answers.t = "undef"
     THEN Upd(s, "done", Failure(500, ParseError), <<>>, <<>>) /\ UNCHANGED quiz_responses
     ELSE IF ~sl.req.env.gen
     THEN Upd(s, "done", Failure(500, GenError), <<"gen">>, <<>>)
          /\ UNCHANGED quiz_responses
     ELSE IF StmtFails([sl EXCEPT !.log = @ \o <<"gen">>])
     THEN Upd(s, "done", Failure(500, StoreError), <<"gen">> \o Stmt, <<>>)
          /\ UNCHANGED quiz_responses
     ELSE IF ~UserExists(sl.user.sub)
     THEN Upd(s, "done", Failure(500, ForeignKeyError), <<"gen">> \o Stmt, <<>>)
          /\ UNCHANGED quiz_responses
     ELSE /\ quiz_responses' = quiz_responses \cup
               {[id |-> Cardinality(quiz_responses) + 1, user_id |-> sl.user.sub,
                 answers |-> ToText(answers), analysis |-> GenText("analysis")]}
          /\ Upd(s, "done",
                 Success("object", <<[id |-> DateNowString, userId |-> Str(sl.user.sub),
                                      answers |-> answers,
                                      analysis |-> GenText("analysis")]>>),
                 <<"gen">> \o Stmt, <<>>)
  /\ UNCHANGED <<users, spending_entries, nextEntryId, savings_goals, chat_messages, now,
               connections, before, client>>

(***************************************************************************)
(* handleAddSpendingEntry: one INSERT; the response echoes the body under  *)
(* an id taken from the clock.                                             *)
(***************************************************************************)
EntryParams(body) ==
  <<body.date, body.amount, body.description, body.category, body.isNecessary>>
\* The row of an INSERT at the second created_at of the store's clock.
NewEntry(id, user_id, body, created_at) ==
  [id |-> id, user_id |-> user_id, date |-> ToText(body.date),
   amount |-> ToColumn(body.amount), description |-> ToText(body.description),
   category |-> ToText(body.category), is_necessary |-> ToColumn(body.isNecessary),
   created_at |-> created_at]
EntryEcho(id, sub, body) ==
  [id |-> id, userId |-> Str(sub), date |-> body.date, amount |-> body.amount,
   description |-> body.description, category |-> body.category,
   isNecessary |-> body.isNecessary]

AddSpendingEntry(s) ==
  /\ slot[s].pc = "add_insert"
  /\ LET sl == slot[s]
         body == sl.req.body IN
     IF ~Bindable(EntryParams(body))
     THEN Upd(s, "done", Thrown(BindError), Refused, <<>>)
          /\ UNCHANGED <<spending_entries, nextEntryId>>
     ELSE IF StmtFails(sl)
     THEN Upd(s, "done", Thrown(StoreError), Stmt, <<>>)
          /\ UNCHANGED <<spending_entries, nextEntryId>>
     ELSE IF ~UserExists(sl.user.sub)
     THEN Upd(s, "done", Thrown(ForeignKeyError), Stmt, <<>>)
          /\ UNCHANGED <<spending_entries, nextEntryId>>
     ELSE /\ spending_entries' =
               spending_entries \cup {NewEntry(nextEntryId, sl.user.sub, body, now)}
          /\ nextEntryId' = nextEntryId + 1
          /\ Upd(s, "done",
                 Success("object", <<EntryEcho(DateNowString, sl.user.sub, body)>>),
                 Stmt, <<>>)
  /\ UNCHANGED <<users, quiz_responses, savings_goals, chat_messages, now,
               connections, before, client>>

(***************************************************************************)
(* handleGetSpendingEntries: the rows of the user, of one date when ?date= *)
(* is given, newest first, as the driver returns them; a store failure is  *)
(* answered with an empty list.                                            *)
(***************************************************************************)
EntriesOf(user_id, date) ==
  {e \in spending_entries : e.user_id = user_id /\ (date = "" \/ e.date = date)}
EntryList(rows) == [i \in 1..Len(rows) |-> EntryRow(rows[i])]

GetSpendingEntries(s) ==
  /\ slot[s].pc = "entries_select"
  /\ LET sl == slot[s]
         userId == ToText(EffectiveUserId(sl.req, sl.user)) IN
     IF StmtFails(sl) THEN Upd(s, "done", Success("list", <<>>), Stmt, <<>>)
     ELSE Upd(s, "done",
              Success("list", EntryList(RowsDesc(EntriesOf(userId, sl.req.qdate)))),
              Stmt, <<>>)
  /\ UNCHANGED <<store, before, client>>

(***************************************************************************)
(* handleSetSavingsGoal: generate the plan (a failure propagates), upsert  *)
(* the row (a failure is swallowed), answer with the submitted figures.    *)
(***************************************************************************)
GoalParams(sub, body, plan) == <<Str(sub), body.monthlyIncome, body.monthlySavingsGoal, plan>>

SetSavingsGoal(s) ==
  /\ slot[s].pc = "goal_upsert"
  /\ LET sl == slot[s]
         body == sl.req.body
         plan == GenPlan(body.monthlyIncome, body.monthlySavingsGoal)
         answer == Success("object",
                     <<[id |-> DateNowString, userId |-> Str(sl.user.sub),
                        monthlyIncome |-> body.monthlyIncome,
                        monthlySavingsGoal |-> body.monthlySavingsGoal,
                        savingsPlan |-> plan]>>) IN
     IF ~sl.req.env.gen
     THEN Upd(s, "done", Thrown(GenError), <<"gen">>, <<>>) /\ UNCHANGED savings_goals
     ELSE IF ~Bindable(GoalParams(sl.user.sub, body, plan))
     THEN Upd(s, "done", answer, <<"gen">> \o Refused, <<>>) /\ UNCHANGED savings_goals
     ELSE IF StmtFails([sl EXCEPT !.log = @ \o <<"gen">>]) \/ ~UserExists(sl.user.sub)
     THEN Upd(s, "done", answer, <<"gen">> \o Stmt, <<>>) /\ UNCHANGED savings_goals
     ELSE /\ savings_goals' =
               UpsertGoal(savings_goals, sl.user.sub, ToColumn(body.monthlyIncome),
                          ToColumn(body.monthlySavingsGoal), plan)
          /\ Upd(s, "done", answer, <<"gen">> \o Stmt, <<>>)
  /\ UNCHANGED <<users, quiz_responses, spending_entries, nextEntryId, chat_messages, now,
               connections, before, client>>

(***************************************************************************)
(* handleGetSavingsGoal.                                                   *)
(***************************************************************************)
GoalsOf(user_id) == {g \in savings_goals : g.user_id = user_id}
GoalPayload(g) ==
  [id |-> NumToString(g.id), userId |-> g.user_id,
   monthlyIncome |-> parseFloat(g.monthly_income),
   monthlySavingsGoal |-> parseFloat(g.monthly_savings_goal),
   savingsPlan |-> g.savings_plan]

\* A handler that consumes the goal it serves.
GetSavingsGoalOnce(s) ==
  /\ slot[s].pc = "goal_select"
  /\ LET sl == slot[s]
         found == RowsAsc(GoalsOf(ToText(GoalUserId(sl.req)))) IN
     /\ IF StmtFails(sl) THEN Upd(s, "done", Thrown(StoreError), Stmt, <<>>)
        ELSE IF found = <<>>
        THEN Upd(s, "done", Failure(404, "Savings goal not found"), Stmt, <<>>)
        ELSE Upd(s, "done", Success("object", <<GoalPayload(GoalRow(found[1]))>>), Stmt, <<>>)
     /\ savings_goals' = savings_goals \ GoalsOf(ToText(GoalUserId(sl.req)))
  /\ UNCHANGED <<users, quiz_responses, spending_entries, nextEntryId, chat_messages, now,
               connections, before, client>>

GetSavingsGoal(s) ==
  /\ slot[s].pc = "goal_select"
  /\ LET sl == slot[s]
         found == RowsAsc(GoalsOf(ToText(GoalUserId(sl.req)))) IN
     IF StmtFails(sl) THEN Upd(s, "done", Thrown(StoreError), Stmt, <<>>)
     ELSE IF found = <<>>
     THEN Upd(s, "done", Failure(404, "Savings goal not found"), Stmt, <<>>)
     ELSE Upd(s, "done", Success("object", <<GoalPayload(GoalRow(found[1]))>>), Stmt, <<>>)
  /\ UNCHANGED <<store, before, client>>

(***************************************************************************)
(* handleGetDailyAnalysis: the day's rows, then the goal, then the totals  *)
(* and the on-track rule.  The amounts are what the driver returned.       *)
(***************************************************************************)
RECURSIVE Reduce(_, _)
\* entries.reduce((sum, entry) => sum + entry.amount, acc)
Reduce(entries, acc) ==
  IF entries = <<>> THEN acc
  ELSE Reduce(Tail(entries), JsAdd(acc, Head(entries).amount))

TotalSpent(entries) == Reduce(entries, Num(0))
NecessarySpent(entries) ==
  Reduce(SelectSeq(entries, LAMBDA e : Truthy(e.is_necessary)), Num(0))

\* 30 * dailyBudget: monthly_income - monthly_savings_goal, or 0 without a goal.
DailyBudget30(goals) ==
  IF goals = <<>> THEN Num(0)
  ELSE JsSub(goals[1].monthly_income, goals[1].monthly_savings_goal)

\* totalSpent <= dailyBudget * 0.8, that is 300 * totalSpent <= 8 * (30 * dailyBudget);
\* a comparison with NaN is false.
OnTrack(totalSpent, budget30) ==
  LET t == ToNumber(totalSpent) IN
  /\ t.t = "num"
  /\ budget30.t = "num"
  /\ 300 * t.n <= 8 * budget30.n

GetDailyEntries(s) ==
  /\ slot[s].pc = "daily_entries"
  /\ LET sl == slot[s]
         userId == ToText(DailyUserId(sl.req)) IN
     IF sl.req.qdate = "" THEN Upd(s, "done", Thrown(BindError), Refused, <<>>)
     ELSE IF StmtFails(sl) THEN Upd(s, "done", Thrown(StoreError), Stmt, <<>>)
     ELSE Upd(s, "daily_goal", NoResponse, Stmt,
              EntryList(RowsAsc(EntriesOf(userId, sl.req.qdate))))
  /\ UNCHANGED <<store, before, client>>

DailyPayload(date, entries, goals) ==
  [date |-> Str(date), totalSpent |-> TotalSpent(entries),
   necessarySpent |-> NecessarySpent(entries),
   unnecessarySpent |-> JsSub(TotalSpent(entries), NecessarySpent(entries)),
   onTrack |-> Bool(OnTrack(TotalSpent(entries), DailyBudget30(goals))),
   analysis |-> GenText("analysis")]

GetDailyGoal(s) ==
  /\ slot[s].pc = "daily_goal"
  /\ LET sl == slot[s]
         found == RowsAsc(GoalsOf(ToText(DailyUserId(sl.req))))
         goals == [i \in 1..Len(found) |-> GoalRow(found[i])] IN
     IF StmtFails(sl) THEN Upd(s, "done", Thrown(StoreError), Stmt, <<>>)
     ELSE IF ~sl.req.env.gen
     THEN Upd(s, "done", Thrown(GenError), Stmt \o <<"gen">>, <<>>)
     ELSE Upd(s, "done",
              Success("object", <<DailyPayload(sl.req.qdate, sl.rows, goals)>>),
              Stmt \o <<"gen">>, <<>>)
  /\ UNCHANGED <<store, before, client>>

(***************************************************************************)
(* handleGetQuizAnalysis: the latest quiz response of the user.            *)
(***************************************************************************)
GetQuizAnalysis(s) ==
  /\ slot[s].pc = "quiz_latest"
  /\ LET sl == slot[s]
         userId == ToText(QuizAnalysisUserId(sl.req))
         found == RowsDesc({q \in quiz_responses : q.user_id = userId}) IN
     IF StmtFails(sl) THEN Upd(s, "done", Thrown(StoreError), Stmt, <<>>)
     ELSE IF found = <<>> THEN Upd(s, "done", Failure(404, "Quiz not found"), Stmt, <<>>)
     ELSE Upd(s, "done",
              Success("object", <<[id |-> NumToString(Num(found[1].id)),
                                   userId |-> Str(found[1].user_id),
                                   answers |-> Str(found[1].answers),
                                   analysis |-> found[1].analysis]>>),
              Stmt, <<>>)
  /\ UNCHANGED <<store, before, client>>

(***************************************************************************)
(* handleUpdateSpendingEntry and handleDeleteSpendingEntry: the ownership  *)
(* SELECT, then the UPDATE or the DELETE of the row with that id and owner.*)
(***************************************************************************)
OwnedEntries(entryId, sub) ==
  {e \in spending_entries : e.id = ToId(entryId) /\ e.user_id = sub}

UpdateSelect(s) ==
  /\ slot[s].pc = "update_select"
  /\ LET sl == slot[s]
         found == RowsAsc(OwnedEntries(EntryId(sl.req), sl.user.sub)) IN
     IF ~Bindable(<<EntryId(sl.req), Str(sl.user.sub)>>)
     THEN Upd(s, "done", Thrown(BindError), Refused, <<>>)
     ELSE IF StmtFails(sl) THEN Upd(s, "done", Thrown(StoreError), Stmt, <<>>)
     ELSE IF found = <<>> THEN Upd(s, "done", Failure(404, "Entry not found"), Stmt, <<>>)
     ELSE Upd(s, "update_update", NoResponse, Stmt, EntryList(found))
  /\ UNCHANGED <<store, before, client>>

\* An UPDATE whose SET list also stamps created_at = NOW().
UpdateAndStamp(entries, entryId, sub, body) ==
  {IF e.id = ToId(entryId) /\ e.user_id = sub
   THEN NewEntry(e.id, e.user_id, body, now) ELSE e : e \in entries}

\* UPDATE spending_entries SET date, amount, description, category,
\* is_necessary WHERE id = ? AND user_id = ?
UpdateEntries(entries, entryId, sub, body) ==
  {IF e.id = ToId(entryId) /\ e.user_id = sub
   THEN [e EXCEPT !.date = ToText(body.date), !.amount = ToColumn(body.amount),
                  !.description = ToText(body.description),
                  !.category = ToText(body.category),
                  !.is_necessary = ToColumn(body.isNecessary)]
   ELSE e : e \in entries}

UpdateSpendingEntry(s) ==
  /\ slot[s].pc = "update_update"
  /\ LET sl == slot[s]
         body == sl.req.body IN
     IF ~Bindable(EntryParams(body))
     THEN Upd(s, "done", Thrown(BindError), Refused, <<>>) /\ UNCHANGED spending_entries
     ELSE IF StmtFails(sl)
     THEN Upd(s, "done", Thrown(StoreError), Stmt, <<>>) /\ UNCHANGED spending_entries
     ELSE /\ spending_entries' =
               UpdateEntries(spending_entries, EntryId(sl.req), sl.user.sub, body)
          /\ Upd(s, "done",
                 Success("object", <<EntryEcho(EntryId(sl.req), sl.user.sub, body)>>),
                 Stmt, <<>>)
  /\ UNCHANGED <<users, quiz_responses, nextEntryId, savings_goals, chat_messages, now,
               connections, before, client>>

DeleteSelect(s) ==
  /\ slot[s].pc = "delete_select"
  /\ LET sl == slot[s] IN
     IF ~Bindable(<<EntryId(sl.req), Str(sl.user.sub)>>)
     THEN Upd(s, "done", Thrown(BindError), Refused, <<>>)
     ELSE IF StmtFails(sl) THEN Upd(s, "done", Thrown(StoreError), Stmt, <<>>)
     ELSE IF OwnedEntries(EntryId(sl.req), sl.user.sub) = {}
     THEN Upd(s, "done", Failure(404, "Entry not found"), Stmt, <<>>)
     ELSE Upd(s, "delete_delete", NoResponse, Stmt, <<>>)
  /\ UNCHANGED <<store, before, client>>

DeleteSpendingEntry(s) ==
  /\ slot[s].pc = "delete_delete"
  /\ LET sl == slot[s] IN
     IF StmtFails(sl)
     THEN Upd(s, "done", Thrown(StoreError), Stmt, <<>>) /\ UNCHANGED spending_entries
     ELSE /\ spending_entries' =
               spending_entries \ OwnedEntries(EntryId(sl.req), sl.user.sub)
          /\ Upd(s, "done", Success("null", <<>>), Stmt, <<>>)
  /\ UNCHANGED <<users, quiz_responses, nextEntryId, savings_goals, chat_messages, now,
               connections, before, client>>

(***************************************************************************)
(* handleChatMessage: SELECT the goal, SELECT the recent entries, generate *)
(* the advice, INSERT the user's message, INSERT the advice.  The two      *)
(* INSERTs are two statements; each takes its timestamp from NOW().        *)
(***************************************************************************)
ChatGoal(s) ==
  /\ slot[s].pc = "chat_goal"
  /\ IF StmtFails(slot[s]) THEN Upd(s, "done", Thrown(StoreError), Stmt, <<>>)
     ELSE Upd(s, "chat_entries", NoResponse, Stmt, <<>>)
  /\ UNCHANGED <<store, before, client>>

ChatEntries(s) ==
  /\ slot[s].pc = "chat_entries"
  /\ IF StmtFails(slot[s]) THEN Upd(s, "done", Thrown(StoreError), Stmt, <<>>)
     ELSE Upd(s, "chat_user", NoResponse, Stmt, <<>>)
  /\ UNCHANGED <<store, before, client>>

NewMessage(user_id, message, is_user) ==
  [id |-> Cardinality(chat_messages) + 1, user_id |-> user_id, message |-> message,
   is_user |-> is_user, timestamp |-> now]

ChatUserInsert(s) ==
  /\ slot[s].pc = "chat_user"
  /\ LET sl == slot[s]
         message == sl.req.body.message IN
     IF ~sl.req.env.gen
     THEN Upd(s, "done", Thrown(GenError), <<"gen">>, <<>>) /\ UNCHANGED chat_messages
     ELSE IF ~Bindable(<<Str(sl.user.sub), message, Bool(TRUE)>>)
     THEN Upd(s, "done", Thrown(BindError), <<"gen">> \o Refused, <<>>)
          /\ UNCHANGED chat_messages
     ELSE IF StmtFails([sl EXCEPT !.log = @ \o <<"gen">>])
     THEN Upd(s, "done", Thrown(StoreError), <<"gen">> \o Stmt, <<>>)
          /\ UNCHANGED chat_messages
     ELSE IF ~UserExists(sl.user.sub)
     THEN Upd(s, "done", Thrown(ForeignKeyError), <<"gen">> \o Stmt, <<>>)
          /\ UNCHANGED chat_messages
     ELSE /\ chat_messages' =
               chat_messages \cup {NewMessage(sl.user.sub, ToText(message), 1)}
          /\ Upd(s, "chat_ai", NoResponse, <<"gen">> \o Stmt, <<>>)
  /\ UNCHANGED <<users, quiz_responses, spending_entries, nextEntryId, savings_goals,
                 now, connections, before, client>>

ChatAiInsert(s) ==
  /\ slot[s].pc = "chat_ai"
  /\ LET sl == slot[s] IN
     IF StmtFails(sl)
     THEN Upd(s, "done", Thrown(StoreError), Stmt, <<>>) /\ UNCHANGED chat_messages
     ELSE /\ chat_messages' = chat_messages \cup {NewMessage(sl.user.sub, "advice", 0)}
          /\ Upd(s, "done",
                 Success("object", <<[id |-> DateNowString, userId |-> Str(sl.user.sub),
                                      message |-> GenText("advice"),
                                      isUser |-> Bool(FALSE)]>>),
                 Stmt, <<>>)
  /\ UNCHANGED <<users, quiz_responses, spending_entries, nextEntryId, savings_goals,
                 now, connections, before, client>>

(***************************************************************************)
(* handleGetChatHistory: the user's messages ORDER BY timestamp DESC       *)
(* LIMIT 50.  Among rows of equal timestamp the store returns any order.   *)
(***************************************************************************)
HistoryLimit == 50
MessagesOf(user_id) == {m \in chat_messages : m.user_id = user_id}
\* The sequences the store may return for ORDER BY timestamp DESC.
NewestFirst(S) ==
  {f \in [1..Cardinality(S) -> S] :
     /\ \A i, j \in 1..Cardinality(S) : i # j => f[i] # f[j]
     /\ \A i, j \in 1..Cardinality(S) : i < j => f[i].timestamp >= f[j].timestamp}
Limit(rows, n) == SubSeq(rows, 1, IF Len(rows) < n THEN Len(rows) ELSE n)
MessageList(rows) ==
  [i \in 1..Len(rows) |->
     [id |-> NumToString(Num(rows[i].id)), userId |-> Str(rows[i].user_id),
      message |-> Str(rows[i].message), isUser |-> Bool(rows[i].is_user = 1),
      timestamp |-> Num(rows[i].timestamp)]]

GetChatHistory(s) ==
  /\ slot[s].pc = "chat_history"
  /\ LET sl == slot[s]
         userId == ToText(ChatUserId(sl.req)) IN
     IF StmtFails(sl) THEN Upd(s, "done", Thrown(StoreError), Stmt, <<>>)
     ELSE \E rows \in NewestFirst(MessagesOf(userId)) :
            Upd(s, "done", Success("list", MessageList(Limit(rows, HistoryLimit))),
                Stmt, <<>>)
  /\ UNCHANGED <<store, before, client>>

\* A second passes on the store's clock.
Tick ==
  /\ now < MaxClock
  /\ now' = now + 1
  /\ UNCHANGED <<users, quiz_responses, spending_entries, nextEntryId, savings_goals,
                 chat_messages, connections, slot, before, client>>

(***************************************************************************)
(* The diagnostic probes of the router (no token is asked for).            *)
(***************************************************************************)
TestDb(s) ==
  /\ slot[s].pc = "test_db"
  /\ IF StmtFails(slot[s]) THEN Upd(s, "done", Plain(500, StoreError), <<"connect">>, <<>>)
     ELSE Upd(s, "done", Plain(200, ""), <<"connect", "end">>, <<>>)
  /\ UNCHANGED <<store, before, client>>

TestGemini(s) ==
  /\ slot[s].pc = "test_gemini"
  /\ IF slot[s].req.env.gen THEN Upd(s, "done", Plain(200, ""), <<"gen">>, <<>>)
     ELSE Upd(s, "done", Plain(500, GenError), <<"gen">>, <<>>)
  /\ UNCHANGED <<store, before, client>>

\* SHOW TABLES, DESCRIBE quiz_responses, DESCRIBE users, SELECT of a fixed user.
SchemaStatements == 4
TestSchema(s) ==
  /\ slot[s].pc = "test_schema"
  /\ LET sl == slot[s] IN
     IF StmtFails(sl) THEN Upd(s, "done", Plain(500, StoreError), Stmt, <<>>)
     ELSE IF Count(sl.log, "connect") + 1 = SchemaStatements
     THEN Upd(s, "done", Plain(200, ""), Stmt, <<>>)
     ELSE Upd(s, "test_schema", NoResponse, Stmt, <<>>)
  /\ UNCHANGED <<store, before, client>>

(***************************************************************************)
(* executeQuery step by step, on the four calls of /test-schema: the       *)
(* connection is requested (and may be refused), the statement is executed *)
(* (and may throw), the finally block ends the connection, and only then   *)
(* does the call return or throw.                                          *)
(***************************************************************************)
\* A finally block that ends the connection only when the statement resolved.
EndOnSuccess(open, resolved) == IF resolved THEN open - 1 ELSE open

\* finally { await connection.end() }: the open connections after the block.
Finally(open, resolved) == open - 1

\* const connection = await getConnection()
QueryConnect(s) ==
  /\ slot[s].pc = "test_schema"
  /\ \E refused \in BOOLEAN :
       IF StmtFails(slot[s]) /\ refused
       THEN /\ Upd(s, "done", Plain(500, StoreError), <<"connect">>, <<>>)
            /\ UNCHANGED connections
       ELSE /\ Upd(s, "query_execute", NoResponse, <<"connect">>, <<>>)
            /\ connections' = connections + 1
  /\ UNCHANGED <<users, quiz_responses, spending_entries, nextEntryId,
                 savings_goals, chat_messages, now, before, client>>

\* const [rows] = await connection.execute(query, params)
QueryExecute(s) ==
  /\ slot[s].pc = "query_execute"
  /\ IF slot[s].req.env.failAt = Count(slot[s].log, "connect")
     THEN Upd(s, "query_end_failed", NoResponse, <<"execute">>, <<>>)
     ELSE Upd(s, "query_end_ok", NoResponse, <<"execute">>, <<>>)
  /\ UNCHANGED <<store, before, client>>

\* The finally block, then the return or the throw into /test-schema.
QueryEnd(s) ==
  /\ slot[s].pc \in {"query_end_ok", "query_end_failed"}
  /\ LET resolved == slot[s].pc = "query_end_ok" IN
     /\ connections' = Finally(connections, resolved)
     /\ IF ~resolved THEN Upd(s, "done", Plain(500, StoreError), <<"end">>, <<>>)
        ELSE IF Count(slot[s].log, "connect") = SchemaStatements
        THEN Upd(s, "done", Plain(200, ""), <<"end">>, <<>>)
        ELSE Upd(s, "test_schema", NoResponse, <<"end">>, <<>>)
  /\ UNCHANGED <<users, quiz_responses, spending_entries, nextEntryId,
                 savings_goals, chat_messages, now, before, client>>

(***************************************************************************)
(* The browser's client (src/lib/api.ts) and its mock (lib/mock-api, in    *)
(* src/unnamed/part_001).  Every operation of apiClient is                 *)
(* handleApiCall(apiCall, mockCall): the HTTP call is awaited; when it      *)
(* rejects, the mock operation is awaited in its place.  axios resolves a  *)
(* call whose response has a 2xx status and rejects every other one, and   *)
(* rejects when no response arrives (status 0 here).                       *)
(***************************************************************************)
ClientOps ==
  {"submitQuiz", "getQuizAnalysis", "addSpendingEntry", "getSpendingEntries",
   "updateSpendingEntry", "deleteSpendingEntry", "setSavingsGoal", "getSavingsGoal",
   "updateSavingsGoal", "sendChatMessage", "getChatHistory", "getDailyAnalysis",
   "generateSavingsPlan", "analyzeSpendingHabits", "getFinancialAdvice"}

HttpStatuses == {0, 200, 401, 403, 404, 500}
\* validateStatus of axios: status >= 200 && status < 300
Resolves(status) == status >= 200 /\ status < 300

\* The ids a caller passes: ids of the mock's entries and an id of the server.
MockIds == <<"entry-1", "entry-2", "entry-3", "entry-4", "entry-5", "entry-6">>
EntryIds == {MockIds[i] : i \in 1..MaxMock} \cup {"1"}
UserIds == {"mock-user-1", "abc"}

NoCall ==
  [pc |-> "idle", op |-> "", id |-> "", userId |-> "", status |-> 0,
   mocked |-> FALSE, result |-> [from |-> "", success |-> ""]]

\* entry-${Date.now()}: an id no entry of the mock has had.
FreshMockId(entries) == MockIds[Len(entries) + 1]

\* mockSpendingEntries.findIndex(e => e.id === id)
FindIndex(entries, id) ==
  IF \E i \in 1..Len(entries) : entries[i] = id
  THEN CHOOSE i \in 1..Len(entries) :
         entries[i] = id /\ \A j \in 1..(i - 1) : entries[j] # id
  ELSE 0

\* mockSpendingEntries.splice(index, 1)
Splice(entries, index) ==
  [i \in 1..(Len(entries) - 1) |-> IF i < index THEN entries[i] ELSE entries[i + 1]]

\* Whether the mock operation throws: updateSpendingEntry on an id it has not.
MockThrows(op, id, entries) ==
  op = "updateSpendingEntry" /\ FindIndex(entries, id) = 0

\* The success field of the mock operation's result.
MockSuccess(op, userId) ==
  IF op \in {"getQuizAnalysis", "getSavingsGoal"} /\ userId # "mock-user-1"
  THEN "false" ELSE "true"

\* The entries of the mock after the operation.
MockEntriesAfter(op, id, entries) ==
  IF op = "addSpendingEntry" THEN Append(entries, FreshMockId(entries))
  ELSE IF op = "deleteSpendingEntry" /\ FindIndex(entries, id) # 0
  THEN Splice(entries, FindIndex(entries, id))
  ELSE entries

\* An operation of apiClient is called.
ClientCall ==
  /\ call.pc = "idle"
  /\ \E op \in ClientOps, id \in EntryIds, userId \in UserIds :
       /\ op = "addSpendingEntry" => Len(mockSpendingEntries) < MaxMock
       /\ call' = [NoCall EXCEPT !.pc = "http", !.op = op, !.id = id, !.userId = userId]
  /\ UNCHANGED <<store, slot, before, mockSpendingEntries>>

\* try { return await apiCall() } catch (error) { ... }
HttpSettles ==
  /\ call.pc = "http"
  /\ \E status \in HttpStatuses :
       IF Resolves(status)
       THEN call' = [call EXCEPT !.pc = "returned", !.status = status,
                                 !.result = [from |-> "http", success |-> "true"]]
       ELSE call' = [call EXCEPT !.pc = "mock", !.status = status]
  /\ UNCHANGED <<store, slot, before, mockSpendingEntries>>

\* return await mockCall()
MockSettles ==
  /\ call.pc = "mock"
  /\ IF MockThrows(call.op, call.id, mockSpendingEntries)
     THEN /\ call' = [call EXCEPT !.pc = "threw", !.mocked = TRUE]
          /\ UNCHANGED mockSpendingEntries
     ELSE /\ call' = [call EXCEPT !.pc = "returned", !.mocked = TRUE,
                        !.result = [from |-> "mock",
                                    success |-> MockSuccess(call.op, call.userId)]]
          /\ mockSpendingEntries' =
               MockEntriesAfter(call.op, call.id, mockSpendingEntries)
  /\ UNCHANGED <<store, slot, before>>

\* The caller has its result or its error.
ClientDone ==
  /\ call.pc \in {"returned", "threw"}
  /\ call' = NoCall
  /\ UNCHANGED <<store, slot, before, mockSpendingEntries>>

(***************************************************************************)
(* Initial state: an empty store and no request in progress.               *)
(***************************************************************************)
Slots == 1..MaxInFlight

Init ==
  /\ users = {}
  /\ quiz_responses = {}
  /\ spending_entries = {}
  /\ nextEntryId = 1
  /\ savings_goals = {}
  /\ chat_messages = {}
  /\ now = 0
  /\ connections = 0
  /\ mockSpendingEntries = <<"entry-1", "entry-2">>
  /\ call = NoCall
  /\ slot = [s \in Slots |-> IdleSlot]
  /\ before = [users |-> {}, quiz_responses |-> {}, spending_entries |-> {},
               savings_goals |-> {}, chat_messages |-> {}]

(***************************************************************************)
(* The requests of the model.  The tables are kept finite by not admitting *)
(* a request that would insert into a table that is full.                  *)
(***************************************************************************)
Day1 == "2024-01-01"
Day2 == "2024-01-02"
Shapes == {"param", "proxy"}
GenDown == [gen |-> FALSE, failAt |-> 0]
StoreDown(k) == [gen |-> TRUE, failAt |-> k]

Op(req) == Route(req.httpMethod, CleanPath(req))
Admitted(req) ==
  /\ Op(req) = "quizSubmit" => Cardinality(quiz_responses) < MaxQuiz
  /\ Op(req) = "addSpendingEntry" => nextEntryId <= MaxEntries
  /\ Op(req) = "chatMessage" => Cardinality(chat_messages) + 2 <= MaxChat
Coffee == EntryBody(Day1, 55, "coffee", "Food", FALSE)
Rent == EntryBody(Day2, 20, "rent", "Housing", TRUE)
Tea == EntryBody(Day1, 30, "tea", "Food", TRUE)
Goal3000 == GoalBody(3000, 900)
Goal1000 == GoalBody(1000, 1000)
Quiz1 == QuizBody("answers")
Hello == ChatBody("hello")

\* The router's requests: every method on every path, both path shapes, good
\* and bad credentials; one body per route.
Methods == {"GET", "POST", "PUT", "DELETE", "OPTIONS"}
RouterPaths ==
  {<<"health">>, <<"dev", "health">>, <<"debug">>, <<"test-db">>, <<"test-gemini">>,
   <<"test-schema">>, <<"quiz", "submit">>, <<"spending", "entry">>,
   <<"spending", "entries", "abc">>, <<"savings", "goal">>, <<"dev", "savings", "goal">>,
   <<"savings", "goal", "abc">>, <<"analysis", "daily", "abc">>, <<"chat", "message">>,
   <<"chat", "history", "abc">>, <<"quiz", "analysis", "abc">>,
   <<"spending", "entry", "1">>, <<"nope">>, <<>>}
RouterAuth ==
  {<<"Authorization", ValidToken("abc", EmailOf("abc"))>>,
   <<"authorization", ValidToken("abc", EmailOf("abc"))>>,
   <<"Authorization", BadToken("expired")>>,
   <<"Authorization", BadToken("malformed")>>,
   <<"Authorization", NoToken>>,
   <<"none", NoToken>>}
RouterBody(method, path) ==
  LET up == Unstaged(path) IN
  IF method \notin {"POST", "PUT"} THEN NoBody
  ELSE IF up = <<"quiz", "submit">> THEN Quiz1
  ELSE IF Len(up) >= 2 /\ up[1] = "spending" /\ up[2] = "entry" THEN Coffee
  ELSE IF up = <<"savings", "goal">> THEN Goal3000
  ELSE IF up = <<"chat", "message">> THEN Hello
  ELSE NoBody
RouterDate(path) == IF Len(path) >= 1 /\ path[1] = "analysis" THEN Day1 ELSE ""
RouterEnv(auth) ==
  IF auth[1] = "Authorization" /\ auth[2].kind \in {"valid", "none"}
  THEN {EnvOk, GenDown, StoreDown(1)} ELSE {EnvOk}
RouterRequests ==
  {req \in
     UNION {{Request(m, path, shape, auth[1], auth[2], RouterBody(m, path),
                     RouterDate(path), env) :
               m \in Methods, path \in RouterPaths, shape \in Shapes,
               env \in RouterEnv(auth)} : auth \in RouterAuth} :
     Admitted(req)}

Next ==
  \E s \in {1} :
    \/ Arrive(s, RouterRequests)
    \/ Respond(s)
    \/ QuizCheck(s)
    \/ QuizCreateUser(s)
    \/ QuizSave(s)
    \/ AddSpendingEntry(s)
    \/ GetSpendingEntries(s)
    \/ SetSavingsGoal(s)
    \/ GetSavingsGoal(s)
    \/ GetDailyEntries(s)
    \/ GetDailyGoal(s)
    \/ GetQuizAnalysis(s)
    \/ UpdateSelect(s)
    \/ UpdateSpendingEntry(s)
    \/ DeleteSelect(s)
    \/ DeleteSpendingEntry(s)
    \/ ChatGoal(s)
    \/ ChatEntries(s)
    \/ ChatUserInsert(s)
    \/ ChatAiInsert(s)
    \/ GetChatHistory(s)
    \/ TestDb(s)
    \/ TestGemini(s)
    \/ TestSchema(s)

Spec == Init /\ [][Next]_vars

(***************************************************************************)
(* Two provisioned users (each has submitted one quiz) working on their    *)
(* spending entries and savings goals, one request at a time.              *)
(***************************************************************************)
Provisioned ==
  [users |-> {[id |-> u, email |-> EmailOf(u)] : u \in Subjects},
   quiz_responses |->
     {[id |-> IF u = "abc" THEN 1 ELSE 2, user_id |-> u, answers |-> "answers",
       analysis |-> GenText("analysis")] : u \in Subjects},
   spending_entries |-> {}, savings_goals |-> {}, chat_messages |-> {}]

InitProvisioned ==
  /\ users = Provisioned.users
  /\ quiz_responses = Provisioned.quiz_responses
  /\ spending_entries = {}
  /\ nextEntryId = 1
  /\ savings_goals = {}
  /\ chat_messages = {}
  /\ now = 0
  /\ connections = 0
  /\ mockSpendingEntries = <<"entry-1", "entry-2">>
  /\ call = NoCall
  /\ slot = [s \in Slots |-> IdleSlot]
  /\ before = Provisioned

Bearer(sub) == ValidToken(sub, EmailOf(sub))
EntryIdSegs == {IdSegs[i] : i \in 1..MaxEntries}
OwnerEnvs == {EnvOk, GenDown, StoreDown(1)}

OwnerCalls ==
  {<<"POST", <<"spending", "entry">>, b, "">> : b \in {Coffee, Rent}}
  \cup {<<"GET", <<"spending", "entries", u>>, NoBody, d>> :
          u \in Subjects, d \in {"", Day1, Day2}}
  \cup {<<"PUT", <<"spending", "entry", i>>, b, "">> :
          i \in EntryIdSegs, b \in {Tea}}
  \cup {<<"DELETE", <<"spending", "entry", i>>, NoBody, "">> : i \in EntryIdSegs}
  \cup {<<"POST", <<"savings", "goal">>, Goal3000, "">>}
  \cup {<<"GET", <<"savings", "goal", u>>, NoBody, "">> : u \in Subjects}

OwnerRequests ==
  {req \in {Request(c[1], c[2], shape, "Authorization", Bearer(sub), c[3], c[4], env) :
              c \in OwnerCalls, shape \in Shapes, sub \in Subjects, env \in OwnerEnvs} :
     Admitted(req)}

NextOwner ==
  \E s \in {1} :
    \/ Arrive(s, OwnerRequests)
    \/ Respond(s)
    \/ AddSpendingEntry(s)
    \/ GetSpendingEntries(s)
    \/ UpdateSelect(s)
    \/ UpdateSpendingEntry(s)
    \/ DeleteSelect(s)
    \/ DeleteSpendingEntry(s)
    \/ SetSavingsGoal(s)
    \/ GetSavingsGoal(s)

SpecOwner == InitProvisioned /\ [][NextOwner]_vars

(***************************************************************************)
(* Quiz submissions of two subjects, with and without an email claim in    *)
(* the token, with the provider or the store failing at any statement.     *)
(***************************************************************************)
QuizEnvs == {EnvOk, GenDown, StoreDown(1), StoreDown(2), StoreDown(3)}
QuizRequests ==
  {req \in
     {Request("POST", <<"quiz", "submit">>, shape, "Authorization",
              ValidToken(sub, email), Quiz1, "", env) :
        shape \in Shapes, sub \in Subjects, email \in {"", "abc@mail", "xyz@mail"},
        env \in QuizEnvs}
     \cup {Request("GET", <<"quiz", "analysis", u>>, shape, "Authorization",
                   Bearer(sub), NoBody, "", EnvOk) :
             shape \in Shapes, sub \in Subjects, u \in Subjects} :
     /\ Admitted(req)
     /\ req.token.email \in {"", EmailOf(req.token.sub)}}

NextQuiz ==
  \E s \in {1} :
    \/ Arrive(s, QuizRequests)
    \/ Respond(s)
    \/ QuizCheck(s)
    \/ QuizCreateUser(s)
    \/ QuizSave(s)
    \/ GetQuizAnalysis(s)

SpecQuiz == Init /\ [][NextQuiz]_vars

(***************************************************************************)
(* One provisioned user logging a day's expenses, setting a goal and       *)
(* asking for the daily analysis.                                          *)
(***************************************************************************)
Amounts == {0, 20, 55, 56, 60}
AnalysisEnvs == {EnvOk, GenDown, StoreDown(1), StoreDown(2)}
AnalysisCalls ==
  {<<"POST", <<"spending", "entry">>, EntryBody(Day1, a, "coffee", "Food", FALSE), "">> :
      a \in Amounts}
  \cup {<<"POST", <<"spending", "entry">>, Rent, "">>}
  \cup {<<"POST", <<"savings", "goal">>, g, "">> : g \in {Goal3000, Goal1000}}
  \cup {<<"GET", <<"analysis", "daily", "abc">>, NoBody, d>> : d \in {Day1, Day2}}

AnalysisRequests ==
  {req \in {Request(c[1], c[2], shape, "Authorization", Bearer("abc"), c[3], c[4], env) :
              c \in AnalysisCalls, shape \in Shapes, env \in AnalysisEnvs} :
     Admitted(req)}

NextAnalysis ==
  \E s \in {1} :
    \/ Arrive(s, AnalysisRequests)
    \/ Respond(s)
    \/ AddSpendingEntry(s)
    \/ SetSavingsGoal(s)
    \/ GetDailyEntries(s)
    \/ GetDailyGoal(s)

SpecAnalysis == InitProvisioned /\ [][NextAnalysis]_vars

(***************************************************************************)
(* Requests in progress at the same time: SetSavingsGoal and GetSavingsGoal*)
(* of two provisioned users, interleaved statement by statement.           *)
(***************************************************************************)
ConcurrentRequests ==
  {Request("POST", <<"savings", "goal">>, "param", "Authorization", Bearer(c[1]), c[2],
           "", env) :
     c \in {<<"abc", Goal3000>>, <<"abc", Goal1000>>, <<"xyz", Goal3000>>},
     env \in OwnerEnvs}
  \cup {Request("GET", <<"savings", "goal", u>>, "param", "Authorization", Bearer(u),
                NoBody, "", EnvOk) : u \in Subjects}

NextConcurrent ==
  \E s \in Slots :
    \/ ArriveConcurrent(s, ConcurrentRequests)
    \/ Respond(s)
    \/ SetSavingsGoal(s)
    \/ GetSavingsGoal(s)

SpecConcurrent == InitProvisioned /\ [][NextConcurrent]_vars

(***************************************************************************)
(* Chat turns and chat history of two provisioned users, one request at a  *)
(* time, with the store's clock advancing between statements.              *)
(***************************************************************************)
ChatEnvs == {EnvOk, GenDown, StoreDown(1), StoreDown(2), StoreDown(3), StoreDown(4)}
ChatRequests ==
  {req \in
     {Request("POST", <<"chat", "message">>, shape, "Authorization", Bearer(sub),
              Hello, "", env) :
        shape \in Shapes, sub \in Subjects, env \in ChatEnvs}
     \cup {Request("GET", <<"chat", "history", u>>, shape, "Authorization",
                   Bearer(sub), NoBody, "", env) :
             shape \in Shapes, sub \in Subjects, u \in Subjects,
             env \in {EnvOk, StoreDown(1)}} :
     Admitted(req)}

NextChat ==
  \/ Tick
  \/ \E s \in {1} :
       \/ Arrive(s, ChatRequests)
       \/ Respond(s)
       \/ ChatGoal(s)
       \/ ChatEntries(s)
       \/ ChatUserInsert(s)
       \/ ChatAiInsert(s)
       \/ GetChatHistory(s)

SpecChat == InitProvisioned /\ [][NextChat]_vars

(***************************************************************************)
(* Properties.  InProgress(s) is a request that has arrived at slot s and  *)
(* has not been handed back; Answered(s) is one whose response is ready.   *)
(***************************************************************************)
InProgress(s) == slot[s].pc # "idle"
Answered(s) == slot[s].pc = "done"
Verified(s) == slot[s].user # NoUser
FaultFree(s) == slot[s].req.env = EnvOk

\* C2: every request other than a preflight, on a path outside the
\* unauthenticated allow-list, whose bearer token is missing, malformed,
\* expired or otherwise fails verification, is answered with a
\* {success:false, error} envelope at status 401.
RejectedWith401 ==
  \A s \in Slots :
    (/\ Answered(s)
     /\ slot[s].req.httpMethod # "OPTIONS"
     /\ CleanPath(slot[s].req) \notin AllowList
     /\ ~verifyToken(slot[s].req).ok)
    => (/\ slot[s].resp.statusCode = 401
        /\ slot[s].resp.success = "false"
        /\ slot[s].resp.error # "")

\* What the router answers instead: the envelope at status 500.
RejectedWith500 ==
  \E s \in Slots :
    /\ Answered(s)
    /\ slot[s].req.httpMethod = "GET"
    /\ CleanPath(slot[s].req) = <<"spending", "entries", "abc">>
    /\ slot[s].req.token = NoToken
    /\ slot[s].resp = Failure(500, "Invalid token")

\* C3: a request with method OPTIONS (any path), or whose normalized path is
\* /health, is answered with status 200 and token verification is not
\* invoked, whatever the Authorization header holds.
PreflightAndHealthOpen ==
  \A s \in Slots :
    (/\ InProgress(s)
     /\ \/ slot[s].req.httpMethod = "OPTIONS"
        \/ CleanPath(slot[s].req) = <<"health">>)
    => (/\ Answered(s)
        /\ slot[s].resp.statusCode = 200
        /\ Count(slot[s].log, "verify") = 0)

\* /health answered 200 to a request whose token would not verify.
HealthWithBadToken ==
  \E s \in Slots :
    /\ Answered(s)
    /\ slot[s].req.httpMethod = "GET"
    /\ CleanPath(slot[s].req) = <<"health">>
    /\ ~verifyToken(slot[s].req).ok
    /\ slot[s].resp.statusCode = 200

(***************************************************************************)
(* Ownership: spending entries and savings goals of two users (SpecOwner). *)
(***************************************************************************)
OnEntry(req, e) ==
  /\ req.httpMethod \in {"PUT", "DELETE"}
  /\ CleanPath(req) = <<"spending", "entry", IdSegs[e.id]>>
ListsEntriesOf(req, u) ==
  /\ req.httpMethod = "GET"
  /\ CleanPath(req) = <<"spending", "entries", u>>
ReadsGoalOf(req, u) ==
  /\ req.httpMethod = "GET"
  /\ CleanPath(req) = <<"savings", "goal", u>>

\* C1: if spending entry e was created by user A, then for every user B # A
\* holding a valid token, PUT and DELETE on /spending/entry/{e.id} return 404
\* and leave e unchanged in the store, GET /spending/entries/{A} returns 403,
\* and no response sent to B contains e's data.
ForeignEntryShielded ==
  \A s \in Slots : \A e \in before.spending_entries :
    (Answered(s) /\ Verified(s) /\ FaultFree(s) /\ e.user_id # slot[s].user.sub)
    => LET req == slot[s].req
           resp == slot[s].resp IN
       /\ OnEntry(req, e) => (resp.statusCode = 404 /\ e \in spending_entries)
       /\ ListsEntriesOf(req, e.user_id) => resp.statusCode = 403
       /\ \A i \in 1..Len(resp.data) :
            /\ Field(resp.data[i], "user_id") # Str(e.user_id)
            /\ Field(resp.data[i], "userId") # Str(e.user_id)

\* What B gets when the gateway hands the path over as a proxy parameter:
\* the id is bound as undefined and the router answers 500.
ForeignEntryAnswered500 ==
  \E s \in Slots : \E e \in spending_entries :
    /\ Answered(s) /\ Verified(s) /\ FaultFree(s)
    /\ e.user_id = "abc" /\ slot[s].user.sub = "xyz"
    /\ OnEntry(slot[s].req, e)
    /\ slot[s].req.shape = "proxy"
    /\ slot[s].resp = Failure(500, BindError)

\* C4: with token subject "abc" (or any subject other than the one in the
\* path), GET /savings/goal/xyz is answered {success:false,
\* error:"Unauthorized"} at status 403, whether or not a savings_goals row of
\* "xyz" exists, and the store is not read before the rejection.
ForeignGoalRefused ==
  \A s \in Slots : \A u \in Subjects :
    (/\ InProgress(s) /\ Verified(s)
     /\ ReadsGoalOf(slot[s].req, u)
     /\ u # slot[s].user.sub)
    => (/\ Answered(s)
        /\ slot[s].resp = Failure(403, "Unauthorized")
        /\ Count(slot[s].log, "connect") = 0)

\* "abc" refused the goal of "xyz" while that goal exists.
ForeignGoalRefusedWithRow ==
  \E s \in Slots :
    /\ Answered(s)
    /\ slot[s].user.sub = "abc"
    /\ ReadsGoalOf(slot[s].req, "xyz")
    /\ GoalsOf("xyz") # {}
    /\ slot[s].resp.statusCode = 403

\* C5: GET /savings/goal/{userId} with a valid token whose subject equals the
\* userId of the path returns the subject's goal as a success payload when a
\* savings_goals row exists and a 404 envelope when none exists; it is never
\* rejected as Unauthorized, whether the router receives the path as a path
\* parameter or as a proxy path.
OwnGoalServed ==
  \A s \in Slots :
    (/\ Answered(s) /\ Verified(s) /\ FaultFree(s)
     /\ ReadsGoalOf(slot[s].req, slot[s].user.sub))
    => LET resp == slot[s].resp
           mine == GoalsOf(slot[s].user.sub) IN
       /\ resp.statusCode # 403
       /\ IF mine = {} THEN resp.statusCode = 404 /\ resp.success = "false"
          ELSE /\ resp.statusCode = 200 /\ resp.success = "true"
               /\ Len(resp.data) = 1
               /\ \E g \in mine :
                    /\ Field(resp.data[1], "userId") = Str(g.user_id)
                    /\ Field(resp.data[1], "monthlyIncome") = Num(g.monthly_income)
                    /\ Field(resp.data[1], "monthlySavingsGoal") =
                         Num(g.monthly_savings_goal)

\* The owner refused their own goal: the path came as a proxy parameter.
OwnGoalRefused ==
  \E s \in Slots :
    /\ Answered(s) /\ FaultFree(s)
    /\ slot[s].user.sub = "abc"
    /\ ReadsGoalOf(slot[s].req, "abc")
    /\ slot[s].req.shape = "proxy"
    /\ GoalsOf("abc") # {}
    /\ slot[s].resp = Failure(403, "Unauthorized")

\* C6: after a successful POST /spending/entry by subject S with date d,
\* amount, description, category and isNecessary, and no update or delete of
\* that entry since, GET /spending/entries/S?date=d by S returns a list that
\* contains an entry with identical amount, description, category and
\* isNecessary.  (PUT bodies differ from POST bodies, so a row that equals the
\* row of a POST body has not been updated.)
EntryRoundTrip ==
  \A s \in Slots : \A b \in {Coffee, Rent} : \A e \in spending_entries :
    (/\ Answered(s) /\ Verified(s) /\ FaultFree(s)
     /\ ListsEntriesOf(slot[s].req, slot[s].user.sub)
     /\ slot[s].req.qdate = ToText(b.date)
     /\ e = NewEntry(e.id, slot[s].user.sub, b, e.created_at))
    => \E i \in 1..Len(slot[s].resp.data) :
         LET item == slot[s].resp.data[i] IN
         /\ Field(item, "amount") = b.amount
         /\ Field(item, "description") = b.description
         /\ Field(item, "category") = b.category
         /\ Field(item, "isNecessary") = b.isNecessary

\* What the list holds instead: the driver's row, with the amount as the
\* string "55.00", is_necessary as 0 and no isNecessary.
EntryListedAsRow ==
  \E s \in Slots : \E i \in 1..Len(slot[s].resp.data) :
    LET item == slot[s].resp.data[i] IN
    /\ Answered(s) /\ FaultFree(s)
    /\ ListsEntriesOf(slot[s].req, slot[s].user.sub)
    /\ slot[s].req.qdate = Day1
    /\ Field(item, "description") = Coffee.description
    /\ Field(item, "amount") = DecStr(55)
    /\ Field(item, "is_necessary") = Num(0)
    /\ Field(item, "isNecessary") = Undefined

(***************************************************************************)
(* Quiz submissions (SpecQuiz).                                            *)
(***************************************************************************)
SubmitsQuiz(req) ==
  /\ req.httpMethod = "POST"
  /\ CleanPath(req) = <<"quiz", "submit">>
UserRows(T, u) == {r \in T : r.id = u}
QuizRows(T, u) == {r \in T : r.user_id = u}

\* C7: a quiz submission by a subject with no users row creates exactly one
\* users row and exactly one quiz_responses row; every later submission by
\* the same subject adds one quiz_responses row and no users row, so the
\* users table holds exactly one row of the subject after any number of
\* sequential submissions.  (Stated of submissions whose store and provider
\* do not fail.)
QuizProvisionsOnce ==
  \A s \in Slots :
    (Answered(s) /\ Verified(s) /\ FaultFree(s) /\ SubmitsQuiz(slot[s].req))
    => LET sub == slot[s].user.sub IN
       /\ Cardinality(UserRows(users, sub)) = 1
       /\ before.users \subseteq users
       /\ IF UserRows(before.users, sub) = {}
          THEN Cardinality(users) = Cardinality(before.users) + 1
          ELSE users = before.users
       /\ before.quiz_responses \subseteq quiz_responses
       /\ Cardinality(quiz_responses) = Cardinality(before.quiz_responses) + 1
       /\ Cardinality(QuizRows(quiz_responses, sub)) =
            Cardinality(QuizRows(before.quiz_responses, sub)) + 1

\* A new subject whose token carries no email, after another such subject:
\* the default email is taken, the INSERT is refused, no row is created.
QuizRefusedOnDefaultEmail ==
  \E s \in Slots :
    /\ Answered(s) /\ FaultFree(s)
    /\ SubmitsQuiz(slot[s].req)
    /\ slot[s].user = [sub |-> "xyz", email |-> ""]
    /\ slot[s].resp = Failure(500, DuplicateError)
    /\ UserRows(users, "xyz") = {}
    /\ QuizRows(quiz_responses, "xyz") = {}
    /\ \E u \in users : u.id = "abc" /\ u.email = "user@example.com"

\* C29: SubmitQuiz auto-provisions a users row for every new subject, also
\* when the tokens of two or more distinct new subjects carry no email claim
\* (each is given the default email): every such subject gets its own users
\* row and a successful submission.
EveryNewSubjectProvisioned ==
  \A s \in Slots :
    (/\ Answered(s) /\ Verified(s) /\ FaultFree(s)
     /\ SubmitsQuiz(slot[s].req)
     /\ UserRows(before.users, slot[s].user.sub) = {})
    => /\ slot[s].resp.success = "true"
       /\ \E u \in users \ before.users : u.id = slot[s].user.sub

\* A new subject without an email claim has submitted while the default
\* email belongs to the users row of another subject: 500, and the users
\* table is as it was.
DefaultEmailTaken ==
  \E s \in Slots : \E u \in before.users :
    /\ Answered(s) /\ Verified(s) /\ FaultFree(s)
    /\ SubmitsQuiz(slot[s].req)
    /\ slot[s].user.email = ""
    /\ u.id # slot[s].user.sub
    /\ u.email = EmailOrDefault(slot[s].user.email)
    /\ UserRows(before.users, slot[s].user.sub) = {}
    /\ slot[s].resp.statusCode = 500
    /\ users = before.users
    /\ quiz_responses = before.quiz_responses

(***************************************************************************)
(* The daily analysis (SpecAnalysis).                                      *)
(***************************************************************************)
ReadsDaily(s) ==
  /\ slot[s].req.httpMethod = "GET"
  /\ CleanPath(slot[s].req) = <<"analysis", "daily", slot[s].user.sub>>
  /\ slot[s].resp.success = "true"

RECURSIVE SumAmounts(_)
SumAmounts(S) ==
  IF S = {} THEN 0
  ELSE LET e == CHOOSE x \in S : TRUE IN e.amount + SumAmounts(S \ {e})
\* T: the sum of the amounts of the subject's entries dated that day.
DayTotal(s) == SumAmounts(EntriesOf(slot[s].user.sub, slot[s].req.qdate))

\* C8: for every savings goal (monthlyIncome I, monthlySavingsGoal G) and
\* every day total T, GetDailyAnalysis returns
\* onTrack = (T <= ((I - G) / 30) * 0.8), the bound included; that is
\* 300 * T <= 8 * (I - G).  With I = 3000 and G = 900, T = 55 and T = 56 give
\* true and T = 60 gives false.
OnTrackRule ==
  \A s \in Slots : \A g \in GoalsOf(slot[s].user.sub) :
    (Answered(s) /\ Verified(s) /\ FaultFree(s) /\ ReadsDaily(s))
    => Field(slot[s].resp.data[1], "onTrack") =
         Bool(300 * DayTotal(s) <= 8 * (g.monthly_income - g.monthly_savings_goal))

\* Two entries of 20 on the day (T = 40, I = 3000, G = 900, bound 56): the
\* total is the text "020.0020.00" and onTrack is false.
OnTrackLostOnTwoEntries ==
  \E s \in Slots : \E g \in GoalsOf("abc") :
    /\ Answered(s) /\ FaultFree(s) /\ ReadsDaily(s)
    /\ slot[s].user.sub = "abc"
    /\ g.monthly_income = 3000 /\ g.monthly_savings_goal = 900
    /\ Cardinality(EntriesOf("abc", slot[s].req.qdate)) = 2
    /\ DayTotal(s) = 40
    /\ ToNumber(Field(slot[s].resp.data[1], "totalSpent")) = NaN
    /\ Field(slot[s].resp.data[1], "onTrack") = Bool(FALSE)

\* C9: when the subject has no savings_goals row, GetDailyAnalysis uses
\* dailyBudget = 0, so onTrack is true exactly when the day's total is 0 and
\* false for every positive total.
NoGoalRule ==
  \A s \in Slots :
    (/\ Answered(s) /\ Verified(s) /\ FaultFree(s) /\ ReadsDaily(s)
     /\ GoalsOf(slot[s].user.sub) = {})
    => Field(slot[s].resp.data[1], "onTrack") = Bool(DayTotal(s) = 0)

\* Two entries of amount 0 and no goal: the total is 0, onTrack is false.
NoGoalZeroTotalOffTrack ==
  \E s \in Slots :
    /\ Answered(s) /\ FaultFree(s) /\ ReadsDaily(s)
    /\ GoalsOf(slot[s].user.sub) = {}
    /\ Cardinality(EntriesOf(slot[s].user.sub, slot[s].req.qdate)) = 2
    /\ DayTotal(s) = 0
    /\ Field(slot[s].resp.data[1], "onTrack") = Bool(FALSE)

(***************************************************************************)
(* Savings goals under concurrent requests (SpecConcurrent).               *)
(***************************************************************************)
WritesGoal(s) ==
  /\ slot[s].pc = "goal_upsert"
  /\ slot[s].req.env = EnvOk
  /\ UserExists(slot[s].user.sub)

\* C10: in every reachable state the savings_goals table holds at most one
\* row per user, and a SetSavingsGoal of a user who already has a row
\* replaces that row's monthly_income, monthly_savings_goal and savings_plan
\* in place (same id, same user, no second row), also when two SetSavingsGoal
\* requests of the same user are in progress together.
GoalUpsertInPlace ==
  /\ [](\A u \in Subjects : Cardinality(GoalsOf(u)) <= 1)
  /\ [][\A s \in Slots : \A g \in GoalsOf(slot[s].user.sub) :
          (WritesGoal(s) /\ slot'[s].pc = "done")
          => savings_goals' =
               (savings_goals \ {g}) \cup
                 {[id |-> g.id, user_id |-> g.user_id,
                   monthly_income |-> slot[s].req.body.monthlyIncome.n,
                   monthly_savings_goal |-> slot[s].req.body.monthlySavingsGoal.n,
                   savings_plan |-> GenPlan(slot[s].req.body.monthlyIncome,
                                            slot[s].req.body.monthlySavingsGoal)]}]_vars

\* Two SetSavingsGoal requests of "abc" in progress together, both answered,
\* with different figures: one row, holding the figures of one of them.
TwoGoalWritesOneRow ==
  /\ Answered(1) /\ Answered(2)
  /\ slot[1].user.sub = "abc" /\ slot[2].user.sub = "abc"
  /\ slot[1].req.body = Goal3000 /\ slot[2].req.body = Goal1000
  /\ slot[1].resp.success = "true" /\ slot[2].resp.success = "true"
  /\ Count(slot[1].log, "execute") = 1 /\ Count(slot[2].log, "execute") = 1
  /\ FaultFree(1) /\ FaultFree(2)
  /\ Cardinality(GoalsOf("abc")) = 1
  /\ \E g \in GoalsOf("abc") : g.id = 1 /\ g.monthly_income = 3000

(***************************************************************************)
(* Requests in progress together on /test-schema, executeQuery step by     *)
(* step.                                                                   *)
(***************************************************************************)
QueryRequests ==
  {Request("GET", <<"test-schema">>, shape, "none", NoToken, NoBody, "", env) :
     shape \in Shapes, env \in {EnvOk} \cup {StoreDown(n) : n \in 1..SchemaStatements}}

NextQuery ==
  \E s \in Slots :
    \/ ArriveConcurrent(s, QueryRequests)
    \/ Respond(s)
    \/ QueryConnect(s)
    \/ QueryExecute(s)
    \/ QueryEnd(s)

SpecQuery == Init /\ [][NextQuery]_vars

(***************************************************************************)
(* Quiz submissions in progress together, statement by statement.          *)
(***************************************************************************)
RaceRequests ==
  {req \in {Request("POST", <<"quiz", "submit">>, shape, "Authorization", Bearer(sub),
                    Quiz1, "", env) :
              shape \in Shapes, sub \in Subjects,
              env \in {EnvOk, StoreDown(1), StoreDown(2)}} :
     Admitted(req)}

NextRace ==
  \E s \in Slots :
    \/ ArriveConcurrent(s, RaceRequests)
    \/ Respond(s)
    \/ QuizCheck(s)
    \/ QuizCreateUser(s)
    \/ QuizSave(s)

SpecRace == Init /\ [][NextRace]_vars

(***************************************************************************)
(* Entries added and updated while the store's clock advances.             *)
(***************************************************************************)
UpdateRequests ==
  {req \in
     {Request("POST", <<"spending", "entry">>, shape, "Authorization", Bearer(sub),
              b, "", env) :
        shape \in Shapes, sub \in Subjects, b \in {Coffee, Rent},
        env \in {EnvOk, StoreDown(1)}}
     \cup {Request("PUT", <<"spending", "entry", i>>, shape, "Authorization",
                   Bearer(sub), Tea, "", env) :
             shape \in Shapes, sub \in Subjects, i \in EntryIdSegs,
             env \in {EnvOk, StoreDown(1), StoreDown(2)}} :
     Admitted(req)}

NextUpdate ==
  \/ Tick
  \/ \E s \in {1} :
       \/ Arrive(s, UpdateRequests)
       \/ Respond(s)
       \/ AddSpendingEntry(s)
       \/ UpdateSelect(s)
       \/ UpdateSpendingEntry(s)

SpecUpdate == InitProvisioned /\ [][NextUpdate]_vars

(***************************************************************************)
(* A client that adds an entry and then addresses it by the id the         *)
(* response of handleAddSpendingEntry carried, next to requests on the ids *)
(* of the rows.                                                            *)
(***************************************************************************)
ReturnedSeg == ToText(DateNowString)
ReturnedRequests ==
  {req \in
     {Request("POST", <<"spending", "entry">>, shape, "Authorization", Bearer(sub),
              Coffee, "", env) :
        shape \in Shapes, sub \in Subjects, env \in {EnvOk, StoreDown(1)}}
     \cup {Request(method, <<"spending", "entry", i>>, shape, "Authorization",
                   Bearer(sub), b, "", env) :
             method \in {"PUT", "DELETE"}, shape \in Shapes, sub \in Subjects,
             i \in EntryIdSegs \cup {ReturnedSeg}, b \in {Tea},
             env \in {EnvOk, StoreDown(1), StoreDown(2)}} :
     Admitted(req)}

NextReturned ==
  \E s \in {1} :
    \/ Arrive(s, ReturnedRequests)
    \/ Respond(s)
    \/ AddSpendingEntry(s)
    \/ UpdateSelect(s)
    \/ UpdateSpendingEntry(s)
    \/ DeleteSelect(s)
    \/ DeleteSpendingEntry(s)

SpecReturned == InitProvisioned /\ [][NextReturned]_vars

(***************************************************************************)
(* The browser's client, one call after the other.                         *)
(***************************************************************************)
NextClient ==
  \/ ClientCall
  \/ HttpSettles
  \/ MockSettles
  \/ ClientDone

SpecClient == Init /\ [][NextClient]_vars

(***************************************************************************)
(* Reads only: the five GET handlers on a store that earlier requests have *)
(* filled, with requests in progress together.                             *)
(***************************************************************************)
StoredGoals ==
  {{}, UpsertGoal({}, "abc", ToColumn(Goal3000.monthlyIncome),
                  ToColumn(Goal3000.monthlySavingsGoal),
                  GenPlan(Goal3000.monthlyIncome, Goal3000.monthlySavingsGoal))}
StoredEntries == {{}, {NewEntry(1, "abc", Coffee, 0), NewEntry(2, "abc", Tea, 0)}}
StoredChat ==
  {{}, {[id |-> 1, user_id |-> "abc", message |-> "hello", is_user |-> 1, timestamp |-> 0],
        [id |-> 2, user_id |-> "abc", message |-> "advice", is_user |-> 0, timestamp |-> 0]}}

InitRead ==
  /\ users = Provisioned.users
  /\ quiz_responses = Provisioned.quiz_responses
  /\ spending_entries \in StoredEntries
  /\ nextEntryId = Cardinality(spending_entries) + 1
  /\ savings_goals \in StoredGoals
  /\ chat_messages \in StoredChat
  /\ now = 0
  /\ connections = 0
  /\ mockSpendingEntries = <<"entry-1", "entry-2">>
  /\ call = NoCall
  /\ slot = [s \in Slots |-> IdleSlot]
  /\ before = Tables

ReadPaths ==
  {<<"spending", "entries", "abc">>, <<"savings", "goal", "abc">>,
   <<"analysis", "daily", "abc">>, <<"chat", "history", "abc">>,
   <<"quiz", "analysis", "abc">>}

ReadRequests ==
  {Request("GET", path, shape, "Authorization", Bearer(sub), NoBody, Day1, env) :
     path \in ReadPaths, shape \in Shapes, sub \in Subjects,
     env \in {EnvOk, StoreDown(1)}}

NextRead ==
  \E s \in Slots :
    \/ ArriveConcurrent(s, ReadRequests)
    \/ Respond(s)
    \/ GetSpendingEntries(s)
    \/ GetSavingsGoal(s)
    \/ GetDailyEntries(s)
    \/ GetDailyGoal(s)
    \/ GetQuizAnalysis(s)
    \/ GetChatHistory(s)

SpecRead == InitRead /\ [][NextRead]_vars

(***************************************************************************)
(* The seven parameterized routes in both request shapes, with requests in *)
(* progress together so that one call is answered in either shape on the   *)
(* same store.                                                             *)
(***************************************************************************)
ShapeRequests ==
  ReadRequests
  \cup {Request(method, <<"spending", "entry", i>>, shape, "Authorization",
                Bearer(sub), Tea, "", EnvOk) :
          method \in {"PUT", "DELETE"}, i \in EntryIdSegs, shape \in Shapes,
          sub \in Subjects}

NextShape ==
  \E s \in Slots :
    \/ ArriveConcurrent(s, ShapeRequests)
    \/ Respond(s)
    \/ GetSpendingEntries(s)
    \/ GetSavingsGoal(s)
    \/ GetDailyEntries(s)
    \/ GetDailyGoal(s)
    \/ GetQuizAnalysis(s)
    \/ GetChatHistory(s)
    \/ UpdateSelect(s)
    \/ UpdateSpendingEntry(s)
    \/ DeleteSelect(s)
    \/ DeleteSpendingEntry(s)

SpecShape == InitRead /\ [][NextShape]_vars

(***************************************************************************)
(* Failure handling of the savings goal and spending entry handlers        *)
(* (SpecOwner).                                                            *)
(***************************************************************************)
SetsGoal(req) ==
  /\ req.httpMethod = "POST"
  /\ CleanPath(req) = <<"savings", "goal">>

\* C11: in SetSavingsGoal a failure of the text-generation call is answered
\* with an error envelope and no savings_goals row is written or changed; a
\* failure of the store write is swallowed: the answer is 200 {success:true}
\* with the submitted monthlyIncome and monthlySavingsGoal and the generated
\* plan, and the store is as it was.
GoalFailureModes ==
  \A s \in Slots :
    (Answered(s) /\ Verified(s) /\ SetsGoal(slot[s].req))
    => LET resp == slot[s].resp
           body == slot[s].req.body
           env == slot[s].req.env IN
       /\ ~env.gen =>
            /\ resp.statusCode >= 400
            /\ resp.success = "false" /\ resp.error = GenError
            /\ Tables = before
       /\ (env.gen /\ env.failAt = 1) =>
            /\ resp.statusCode = 200 /\ resp.success = "true"
            /\ Len(resp.data) = 1
            /\ Field(resp.data[1], "monthlyIncome") = body.monthlyIncome
            /\ Field(resp.data[1], "monthlySavingsGoal") = body.monthlySavingsGoal
            /\ Field(resp.data[1], "savingsPlan") =
                 GenPlan(body.monthlyIncome, body.monthlySavingsGoal)
            /\ Tables = before

\* The store write of "abc" failed: success is answered and no row exists.
GoalWriteSwallowed ==
  \E s \in Slots :
    /\ Answered(s) /\ SetsGoal(slot[s].req)
    /\ slot[s].user.sub = "abc"
    /\ slot[s].req.env = StoreDown(1)
    /\ slot[s].resp.success = "true"
    /\ Field(slot[s].resp.data[1], "monthlyIncome") = Num(3000)
    /\ GoalsOf("abc") = {}

\* C12: in GetSpendingEntries, for an authorized caller, a failure of the
\* store call is answered 200 {success:true, data:[]}; the authorization
\* check (403 on a userId that is not the subject) comes before the store
\* call and is the same whether or not the store fails.
EntriesSoftFail ==
  \A s \in Slots : \A u \in Subjects :
    (Answered(s) /\ Verified(s) /\ ListsEntriesOf(slot[s].req, u))
    => IF u # slot[s].user.sub
       THEN /\ slot[s].resp = Failure(403, "Unauthorized")
            /\ Count(slot[s].log, "connect") = 0
       ELSE slot[s].req.env.failAt = 1 => slot[s].resp = Success("list", <<>>)

\* The owner has entries, the store call fails, the list comes back empty.
EntriesHiddenByFailure ==
  \E s \in Slots :
    /\ Answered(s) /\ ListsEntriesOf(slot[s].req, "abc")
    /\ slot[s].user.sub = "abc"
    /\ slot[s].req.env = StoreDown(1)
    /\ EntriesOf("abc", slot[s].req.qdate) # {}
    /\ slot[s].resp = Success("list", <<>>)

\* C13: PUT or DELETE /spending/entry/{id} by subject S, when no
\* spending_entries row with that id owned by S exists (absent, or owned by
\* another user), is answered with a 404 envelope and leaves every store row
\* unchanged; when such a row exists, DELETE removes exactly that row and no
\* other.
MissingEntryIs404 ==
  \A s \in Slots : \A i \in 1..MaxEntries :
    (/\ Answered(s) /\ Verified(s) /\ FaultFree(s)
     /\ slot[s].req.httpMethod \in {"PUT", "DELETE"}
     /\ CleanPath(slot[s].req) = <<"spending", "entry", IdSegs[i]>>)
    => LET owned == {e \in before.spending_entries :
                       e.id = i /\ e.user_id = slot[s].user.sub} IN
       IF owned = {}
       THEN /\ slot[s].resp.statusCode = 404 /\ slot[s].resp.success = "false"
            /\ Tables = before
       ELSE slot[s].req.httpMethod = "DELETE" =>
              Tables = [before EXCEPT !.spending_entries = @ \ owned]

\* The owner's DELETE through a proxy path: 500, and the row is still there.
OwnDeleteAnswered500 ==
  \E s \in Slots : \E e \in spending_entries :
    /\ Answered(s) /\ FaultFree(s)
    /\ slot[s].req.httpMethod = "DELETE"
    /\ slot[s].req.shape = "proxy"
    /\ CleanPath(slot[s].req) = <<"spending", "entry", IdSegs[e.id]>>
    /\ e.user_id = slot[s].user.sub
    /\ slot[s].resp = Failure(500, BindError)

(***************************************************************************)
(* The chat history (SpecChat).                                            *)
(***************************************************************************)
ReadsHistoryOf(req, u) ==
  /\ req.httpMethod = "GET"
  /\ CleanPath(req) = <<"chat", "history", u>>

\* C14: GetChatHistory for the owner returns at most 50 messages, all
\* belonging to that user, ordered strictly newest-first by timestamp (no
\* two adjacent messages out of order or tied), after any sequence of
\* PostChatMessage turns.
HistoryStrictlyNewestFirst ==
  \A s \in Slots : \A u \in Subjects :
    (/\ Answered(s) /\ Verified(s) /\ FaultFree(s)
     /\ ReadsHistoryOf(slot[s].req, u) /\ slot[s].user.sub = u)
    => LET data == slot[s].resp.data IN
       /\ slot[s].resp.success = "true"
       /\ Len(data) <= HistoryLimit
       /\ \A i \in 1..Len(data) : data[i].userId = Str(u)
       /\ \A i \in 1..(Len(data) - 1) :
            data[i].timestamp.n > data[i + 1].timestamp.n

\* The owner's history lists the two messages of one turn with one timestamp.
TurnListedWithOneTimestamp ==
  \E s \in Slots :
    /\ Answered(s) /\ FaultFree(s)
    /\ ReadsHistoryOf(slot[s].req, slot[s].user.sub)
    /\ Len(slot[s].resp.data) >= 2
    /\ \E i \in 1..(Len(slot[s].resp.data) - 1) :
         /\ slot[s].resp.data[i].timestamp = slot[s].resp.data[i + 1].timestamp
         /\ slot[s].resp.data[i].isUser # slot[s].resp.data[i + 1].isUser

(***************************************************************************)
(* Failing responses and unmatched routes (Spec).                          *)
(***************************************************************************)
\* C15: every failing response of the handler, on every route including the
\* diagnostic probe routes, is a JSON body with success:false and an error
\* message.
FailuresAreEnvelopes ==
  \A s \in Slots :
    (Answered(s) /\ slot[s].resp.statusCode >= 400)
    => /\ slot[s].resp.success = "false"
       /\ slot[s].resp.error # ""

\* A diagnostic probe has failed: status 500, an error, no success field.
ProbeFailedWithoutSuccess ==
  \E s \in Slots :
    /\ Answered(s)
    /\ CleanPath(slot[s].req) \in {<<"test-db">>, <<"test-gemini">>, <<"test-schema">>}
    /\ slot[s].resp.statusCode = 500
    /\ slot[s].resp.success = "absent"
    /\ slot[s].resp.error # ""

Unmatched(req) == Route(req.httpMethod, CleanPath(req)) = "notFound"

\* C16 as stated: every method+path combination that matches no route is
\* answered with {success:false, error:"Not found"} at status 404.
UnmatchedIs404 ==
  \A s \in Slots :
    (Answered(s) /\ Unmatched(slot[s].req))
    => /\ slot[s].resp.statusCode = 404
       /\ slot[s].resp.success = "false"
       /\ slot[s].resp.error = "Not found"

\* C16: every request other than a preflight whose token verifies and whose
\* method+path combination matches no route is answered with
\* {success:false, error:"Not found"} at status 404, without a store call.
VerifiedUnmatchedIs404 ==
  \A s \in Slots :
    (/\ Answered(s) /\ Unmatched(slot[s].req)
     /\ slot[s].req.httpMethod # "OPTIONS" /\ Verified(s))
    => /\ slot[s].resp.statusCode = 404
       /\ slot[s].resp.success = "false"
       /\ slot[s].resp.error = "Not found"
       /\ slot[s].log = <<"verify">>

\* A verified request on a routed path under a method the path has no route
\* for has been answered 404.
WrongMethodAnswered404 ==
  \E s \in Slots :
    /\ Answered(s) /\ Verified(s) /\ Unmatched(slot[s].req)
    /\ slot[s].req.httpMethod # "OPTIONS"
    /\ \E method \in Methods : Route(method, CleanPath(slot[s].req)) # "notFound"
    /\ slot[s].resp.statusCode = 404

(***************************************************************************)
(* Store connections (SpecQuery).                                          *)
(***************************************************************************)
\* Between the resolution of getConnection and the end of the finally block.
InCall(s) == slot[s].pc \in {"query_execute", "query_end_ok", "query_end_failed"}

\* C17: each executeQuery call opens exactly one store connection and ends
\* it before the call returns or throws, whether the statement succeeded or
\* failed; hence whenever no request is in progress the number of open
\* connections is zero.
ConnectionsScoped ==
  /\ connections = Cardinality({s \in Slots : InCall(s)})
  /\ \A s \in Slots :
       LET log == slot[s].log IN
       IF InCall(s)
       THEN Count(log, "connect") = Count(log, "end") + 1
       ELSE /\ Count(log, "execute") = Count(log, "end")
            /\ Count(log, "connect") - Count(log, "end") =
                 IF Len(log) > 0 /\ log[Len(log)] = "connect" THEN 1 ELSE 0
  /\ (\A s \in Slots : ~InProgress(s)) => connections = 0

\* A statement has failed, its call has thrown, and no connection is open.
FailedStatementEnded ==
  \E s \in Slots :
    /\ Answered(s)
    /\ slot[s].resp = Plain(500, StoreError)
    /\ Len(slot[s].log) >= 3
    /\ SubSeq(slot[s].log, Len(slot[s].log) - 2, Len(slot[s].log)) = Stmt
    /\ connections = 0

(***************************************************************************)
(* Reads (SpecRead).                                                       *)
(***************************************************************************)
\* C18: repeated GET /savings/goal/{userId} by the owner with no intervening
\* write return identical payloads, and no GET handler (spending entries,
\* savings goal, daily analysis, chat history, quiz analysis) changes any
\* store row.
ReadsRepeatable ==
  /\ Tables = before
  /\ \A s, t \in Slots : \A u \in Subjects :
       (/\ Answered(s) /\ Answered(t)
        /\ ReadsGoalOf(slot[s].req, u) /\ slot[s].user.sub = u
        /\ slot[t].req = slot[s].req)
       => slot[s].resp = slot[t].resp

\* The owner's goal has been served twice, to two requests of the same shape.
GoalServedTwice ==
  \E s, t \in Slots :
    /\ s # t /\ Answered(s) /\ Answered(t)
    /\ ReadsGoalOf(slot[s].req, "abc") /\ slot[s].user.sub = "abc"
    /\ slot[t].req = slot[s].req
    /\ slot[s].resp.success = "true"
    /\ Field(slot[s].resp.data[1], "monthlyIncome") = Num(3000)
    /\ slot[t].resp = slot[s].resp

(***************************************************************************)
(* The existence check and the INSERT of SubmitQuiz (SpecRace).            *)
(***************************************************************************)
\* C19: two concurrent SubmitQuiz requests for the same subject with no
\* users row can interleave so that both existence checks return no row and
\* both requests then attempt the users INSERT: the check and the insert are
\* separate, untransacted statements, so an existence check that finds no
\* users row of its subject goes on to the INSERT whatever the other
\* requests in progress have checked or are about to insert.
CheckThenInsertUnguarded ==
  [][\A s \in Slots :
       (/\ slot[s].pc = "quiz_check" /\ slot'[s].pc # "quiz_check"
        /\ ~StmtFails(slot[s])
        /\ \A u \in users : u.id # slot[s].user.sub)
       => slot'[s].pc = "quiz_user"]_vars

\* Two submissions of one subject have both found no users row and both
\* attempted the INSERT: one created the row, the other was refused.
BothAttemptedInsert ==
  \E s, t \in Slots :
    /\ s # t
    /\ SubmitsQuiz(slot[s].req) /\ SubmitsQuiz(slot[t].req)
    /\ slot[s].user.sub = slot[t].user.sub
    /\ slot[s].pc = "quiz_save" /\ Count(slot[s].log, "connect") = 2
    /\ Answered(t) /\ Count(slot[t].log, "connect") = 2
    /\ slot[t].resp = Failure(500, DuplicateError)
    /\ FaultFree(s) /\ FaultFree(t)
    /\ users = {[id |-> slot[s].user.sub, email |-> EmailOf(slot[s].user.sub)]}

\* C28: a SubmitQuiz request whose users INSERT is rejected by the store as
\* a duplicate key (the losing side of two concurrent first submissions of
\* one subject) still completes the submission: it is not answered with a
\* failure at the refused INSERT but goes on to append its quiz_responses
\* row and return success, since the user row it needs exists.
LoserCompletesSubmission ==
  [][\A s \in Slots :
       (/\ slot[s].pc = "quiz_user" /\ slot'[s].pc # "quiz_user"
        /\ ~StmtFails(slot[s])
        /\ ~UserInsertable(slot[s].user.sub, EmailOrDefault(slot[s].user.email))
        /\ UserRows(users, slot[s].user.sub) # {})
       => /\ slot'[s].pc = "quiz_save"
          /\ slot'[s].resp.success # "false"]_vars

\* Two first submissions of one subject have both been answered: the winner
\* with success, the loser with 500, and the subject has one quiz_responses
\* row for its two submissions.
LoserAnswered500 ==
  \E s, t \in Slots :
    /\ s # t
    /\ Answered(s) /\ Answered(t)
    /\ SubmitsQuiz(slot[s].req) /\ SubmitsQuiz(slot[t].req)
    /\ FaultFree(s) /\ FaultFree(t)
    /\ slot[s].user.sub = slot[t].user.sub
    /\ slot[s].resp.success = "true"
    /\ slot[t].resp = Failure(500, DuplicateError)
    /\ Count(slot[t].log, "gen") = 0
    /\ Cardinality(UserRows(users, slot[t].user.sub)) = 1
    /\ Cardinality(QuizRows(quiz_responses, slot[t].user.sub)) = 1

(***************************************************************************)
(* All or nothing (Spec).                                                  *)
(***************************************************************************)
WriterOps ==
  {"quizSubmit", "addSpendingEntry", "updateSpendingEntry", "deleteSpendingEntry",
   "setSavingsGoal", "chatMessage"}

\* The writes of the request in slot s are all in the store.
AllWritten(s) ==
  LET req == slot[s].req
      sub == slot[s].user.sub
      op == Op(req) IN
  CASE op = "quizSubmit" ->
         /\ UserRows(users, sub) # {}
         /\ Cardinality(quiz_responses) = Cardinality(before.quiz_responses) + 1
    [] op = "addSpendingEntry" ->
         Cardinality(spending_entries) = Cardinality(before.spending_entries) + 1
    [] op = "updateSpendingEntry" ->
         \E e \in spending_entries :
           e.id = ToId(EntryId(req)) /\ e = NewEntry(e.id, sub, req.body, e.created_at)
    [] op = "deleteSpendingEntry" ->
         \A e \in spending_entries : ~(e.id = ToId(EntryId(req)) /\ e.user_id = sub)
    [] op = "setSavingsGoal" ->
         \E g \in savings_goals :
           /\ g.user_id = sub
           /\ g.monthly_income = ToColumn(req.body.monthlyIncome)
           /\ g.monthly_savings_goal = ToColumn(req.body.monthlySavingsGoal)
    [] op = "chatMessage" ->
         Cardinality(chat_messages) = Cardinality(before.chat_messages) + 2
    [] OTHER -> TRUE

\* C20: for every handler that writes (SubmitQuiz, AddSpendingEntry,
\* UpdateSpendingEntry, DeleteSpendingEntry, SetSavingsGoal,
\* PostChatMessage), a request answered with a success:false envelope leaves
\* the store exactly as it was before the request, and a request answered
\* with success:true has performed all of its writes.
AllOrNothing ==
  \A s \in Slots :
    (Answered(s) /\ Verified(s) /\ Op(slot[s].req) \in WriterOps)
    => /\ slot[s].resp.success = "false" => Tables = before
       /\ slot[s].resp.success = "true" => AllWritten(s)

\* A quiz submission has been answered success:false and has left a users row.
QuizFailedAfterUserCreated ==
  \E s \in Slots :
    /\ Answered(s) /\ SubmitsQuiz(slot[s].req)
    /\ slot[s].resp.success = "false"
    /\ before.users = {}
    /\ UserRows(users, slot[s].user.sub) # {}
    /\ quiz_responses = before.quiz_responses

(***************************************************************************)
(* Chat turns (SpecChat).                                                  *)
(***************************************************************************)
PostsChat(req) ==
  /\ req.httpMethod = "POST"
  /\ CleanPath(req) = <<"chat", "message">>

\* C21: chat messages are created in pairs: in every state where no
\* PostChatMessage request is in progress, each user has as many
\* chat_messages rows with is_user=true as with is_user=false, also when the
\* generation call or either of the two INSERTs of a turn fails.
MessagesPaired ==
  (\A s \in Slots : ~(InProgress(s) /\ PostsChat(slot[s].req)))
  => \A u \in Subjects :
       Cardinality({m \in MessagesOf(u) : m.is_user = 1}) =
         Cardinality({m \in MessagesOf(u) : m.is_user = 0})

\* The reply's INSERT of a turn has failed, the request has been answered
\* and handed back: a user message stands without its reply.
UserMessageWithoutReply ==
  /\ \A s \in Slots : ~InProgress(s)
  /\ \E u \in Subjects :
       /\ Cardinality({m \in MessagesOf(u) : m.is_user = 1}) = 1
       /\ {m \in MessagesOf(u) : m.is_user = 0} = {}

(***************************************************************************)
(* Verification and the calls to the store and the text generator (Spec).  *)
(***************************************************************************)
\* The entries of a call log that are a store statement or a generation call.
CallsMade(log) == {i \in 1..Len(log) : log[i] \in {"connect", "execute", "end", "gen"}}

\* C22: for every request with a non-OPTIONS method on a path outside the
\* allow-list {/health, /test-db, /test-gemini, /test-schema, /debug}, no
\* store statement is executed and no text-generation call is made unless
\* token verification has already succeeded for that request; verification
\* always precedes dispatch.
VerifyPrecedesCalls ==
  \A s \in Slots :
    (/\ InProgress(s)
     /\ slot[s].req.httpMethod # "OPTIONS"
     /\ CleanPath(slot[s].req) \notin AllowList)
    => LET log == slot[s].log IN
       /\ Len(log) >= 1 /\ log[1] = "verify"
       /\ Count(log, "verify") = 1
       /\ (CallsMade(log) # {} \/ ~Answered(s)) => Verified(s)
       /\ ~Verified(s) =>
            /\ Answered(s)
            /\ log = <<"verify">>
            /\ slot[s].resp.error = "Invalid token"

\* A verified request has made a generation call and a store statement,
\* both after its verification.
CalledAfterVerification ==
  \E s \in Slots :
    /\ InProgress(s) /\ Verified(s)
    /\ CleanPath(slot[s].req) \notin AllowList
    /\ slot[s].log[1] = "verify"
    /\ Count(slot[s].log, "gen") >= 1
    /\ Count(slot[s].log, "execute") >= 1

\* C30: no request that lacks a successfully verified token causes a store
\* query or a text-generation call to be made, on any path and with any
\* method.
NoCallWithoutToken ==
  \A s \in Slots :
    (InProgress(s) /\ ~Verified(s))
    => /\ Count(slot[s].log, "execute") = 0
       /\ Count(slot[s].log, "gen") = 0

\* A request with no token at all has run a store query on /test-schema.
ProbeQueriedWithoutToken ==
  \E s \in Slots :
    /\ InProgress(s)
    /\ slot[s].req.token = NoToken
    /\ CleanPath(slot[s].req) = <<"test-schema">>
    /\ Count(slot[s].log, "verify") = 0
    /\ Count(slot[s].log, "execute") >= 1

(***************************************************************************)
(* Adding a spending entry (Spec).                                         *)
(***************************************************************************)
AddsEntry(req) ==
  /\ req.httpMethod = "POST"
  /\ CleanPath(req) = <<"spending", "entry">>

\* C23: POST /spending/entry by any subject with a valid token and a body
\* carrying date, amount, description, category and isNecessary inserts
\* exactly one spending_entries row owned by the token subject and returns
\* success, for every authenticated subject including one that has never
\* submitted a quiz (no prior store read or users row is required).
EntryAddedForAnySubject ==
  \A s \in Slots :
    (/\ Answered(s) /\ Verified(s) /\ FaultFree(s)
     /\ AddsEntry(slot[s].req) /\ Bindable(EntryParams(slot[s].req.body)))
    => /\ slot[s].resp.success = "true"
       /\ before.spending_entries \subseteq spending_entries
       /\ \E e \in spending_entries :
            /\ spending_entries \ before.spending_entries = {e}
            /\ e.user_id = slot[s].user.sub

\* A subject with no users row has posted an entry: 500, and no row.
EntryRefusedWithoutUserRow ==
  \E s \in Slots :
    /\ Answered(s) /\ Verified(s) /\ FaultFree(s)
    /\ AddsEntry(slot[s].req) /\ Bindable(EntryParams(slot[s].req.body))
    /\ ~UserExists(slot[s].user.sub)
    /\ slot[s].resp = Failure(500, ForeignKeyError)
    /\ spending_entries = before.spending_entries

(***************************************************************************)
(* The frame of an update (SpecUpdate).                                    *)
(***************************************************************************)
UpdatesEntry(req, i) ==
  /\ req.httpMethod = "PUT"
  /\ CleanPath(req) = <<"spending", "entry", IdSegs[i]>>

\* C24: a successful PUT /spending/entry/{id} by the owner changes only
\* date, amount, description, category and is_necessary of the row with that
\* id; the row's id, user_id and created_at, every other spending entry, and
\* every row of every other table are unchanged.
UpdateFrame ==
  \A s \in Slots : \A i \in 1..MaxEntries :
    (/\ Answered(s) /\ Verified(s)
     /\ UpdatesEntry(slot[s].req, i)
     /\ slot[s].resp.success = "true")
    => \E old \in before.spending_entries : \E new \in spending_entries :
         /\ old.id = i /\ old.user_id = slot[s].user.sub
         /\ new.id = old.id /\ new.user_id = old.user_id
         /\ new.created_at = old.created_at
         /\ spending_entries \ {new} = before.spending_entries \ {old}
         /\ Tables = [before EXCEPT !.spending_entries = spending_entries]

\* An entry has been updated a second or more after it was created, next to
\* another entry.
EntryUpdatedLater ==
  \E s \in Slots : \E e \in spending_entries :
    /\ Answered(s) /\ slot[s].resp.success = "true"
    /\ UpdatesEntry(slot[s].req, e.id)
    /\ e.description = "tea"
    /\ e.created_at < now
    /\ e \notin before.spending_entries
    /\ Cardinality(spending_entries) = 2

(***************************************************************************)
(* The id an added entry is answered with (SpecReturned).                  *)
(***************************************************************************)
OnReturnedId(req) ==
  /\ req.httpMethod \in {"PUT", "DELETE"}
  /\ CleanPath(req) = <<"spending", "entry", ReturnedSeg>>

\* C26: the id returned in the success payload of POST /spending/entry
\* identifies the created entry: it is the id of the row the request
\* inserted, and a subsequent PUT or DELETE /spending/entry/{that id} by the
\* same subject finds that entry (no 404) and updates or removes it.
ReturnedIdFindsEntry ==
  \A s \in Slots :
    /\ (/\ Answered(s) /\ AddsEntry(slot[s].req)
        /\ slot[s].resp.success = "true")
       => \E e \in spending_entries \ before.spending_entries :
            /\ e.user_id = slot[s].user.sub
            /\ ToId(slot[s].resp.data[1].id) = e.id
    /\ (/\ Answered(s) /\ Verified(s) /\ FaultFree(s)
        /\ OnReturnedId(slot[s].req)
        /\ \E e \in before.spending_entries : e.user_id = slot[s].user.sub)
       => /\ slot[s].resp.statusCode # 404
          /\ slot[s].resp.success = "true"
          /\ spending_entries # before.spending_entries

\* A subject that owns an entry has addressed it by the id its POST was
\* answered with, as a named path parameter: 404, and the entry is as it was.
ReturnedIdNotFound ==
  \E s \in Slots :
    /\ Answered(s) /\ Verified(s) /\ FaultFree(s)
    /\ OnReturnedId(slot[s].req)
    /\ slot[s].req.shape = "param"
    /\ \E e \in spending_entries : e.user_id = slot[s].user.sub
    /\ slot[s].resp = Failure(404, "Entry not found")
    /\ spending_entries = before.spending_entries

(***************************************************************************)
(* The two request shapes (SpecShape).                                     *)
(***************************************************************************)
Reshaped(req, shape) == [req EXCEPT !.shape = shape]
\* The userId or id the handler of a parameterized route works with.
SeenParameter(req) ==
  CASE Op(req) = "getQuizAnalysis" -> QuizAnalysisUserId(req)
    [] Op(req) = "getSavingsGoal" -> GoalUserId(req)
    [] Op(req) = "getSpendingEntries" -> EntriesUserId(req)
    [] Op(req) = "getDailyAnalysis" -> DailyUserId(req)
    [] Op(req) = "getChatHistory" -> ChatUserId(req)
    [] Op(req) \in {"updateSpendingEntry", "deleteSpendingEntry"} -> EntryId(req)
    [] OTHER -> Undefined

\* C27: for each parameterized route (GET /quiz/analysis/{userId},
\* /savings/goal/{userId}, /spending/entries/{userId},
\* /analysis/daily/{userId}, /chat/history/{userId}; PUT and DELETE
\* /spending/entry/{id}) the handler sees the same userId or id, and gives
\* the same response, whether the value arrives as a named path parameter or
\* only inside the request path with pathParameters.proxy set.  The
\* responses of one call in its two shapes are compared on a store that no
\* request has written.
SameInBothShapes ==
  \A s \in Slots :
    /\ slot[s].pc # "idle"
       => SeenParameter(Reshaped(slot[s].req, "param"))
            = SeenParameter(Reshaped(slot[s].req, "proxy"))
    /\ \A t \in Slots :
         (/\ Answered(s) /\ Answered(t)
          /\ slot[s].req.shape = "param"
          /\ slot[t].req = Reshaped(slot[s].req, "proxy")
          /\ Tables = before)
         => slot[t].resp = slot[s].resp

\* One call has been answered in both shapes on the same store: with success
\* as a named parameter, refused with 403 or failed with 500 as a proxy path.
ShapesAnsweredDifferently ==
  \E s \in Slots : \E t \in Slots :
    /\ Answered(s) /\ Answered(t)
    /\ slot[s].req.shape = "param"
    /\ slot[t].req = Reshaped(slot[s].req, "proxy")
    /\ Tables = before
    /\ slot[s].resp.success = "true"
    /\ slot[t].resp.statusCode \in {403, 500}
    /\ SeenParameter(slot[t].req) = Undefined
    /\ SeenParameter(slot[s].req) # Undefined

(***************************************************************************)
(* The mock fallback (SpecClient).                                         *)
(***************************************************************************)
\* C25: for every apiClient operation, if the HTTP call resolves its
\* response is returned and the mock is not invoked; if the HTTP call
\* rejects for any reason (network error or any non-2xx status, including
\* 401, 403 and 404 from the server), the result of the corresponding
\* mockApiClient operation is returned instead, so a server rejection is
\* never surfaced to the caller as an error.
FallbackAlwaysReturns ==
  /\ call.pc # "threw"
  /\ call.pc = "returned" =>
       IF Resolves(call.status)
       THEN call.result.from = "http" /\ ~call.mocked
       ELSE /\ call.mocked
            /\ call.result = [from |-> "mock",
                              success |-> MockSuccess(call.op, call.userId)]

\* The server has answered 404 to updateSpendingEntry of one of its own ids,
\* and the caller has the mock's error.
MockUpdateThrew ==
  /\ call.pc = "threw"
  /\ call.op = "updateSpendingEntry"
  /\ call.id = "1"
  /\ call.status = 404
  /\ call.mocked

====
